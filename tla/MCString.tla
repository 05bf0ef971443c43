------------------------------ MODULE MCString ------------------------------
(* Model checking of CfuString. *)
EXTENDS CfuString

TwoTexts == {<<"a">>, <<"a", "b">>, <<",">>}
TwoNumbers == {<<"7">>, <<"7", "7", "7">>}
TwoSepLists == {<<<<",">>>>, <<<<"a", "b">>, <<",">>>>}

(* A string that was printed is not followed further, and printing begins  *)
(* in an unused or a small buffer.                                         *)
Bounds ==
  /\ status = "running" => res.of # <<"print">>
  /\ status = "formatting" /\ call.fmt = <<>> => cfu_str.max_size <= 2
=============================================================================
