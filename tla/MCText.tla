------------------------------- MODULE MCText -------------------------------
(* Texts of up to three code points at the borders of the encodings, with  *)
(* what is no code point, and units that do not belong together; beside    *)
(* the empty text, strings with the characters that are special somewhere. *)
EXTENDS UtfText, StringText

PointsDef == {\h41, \h80, \h7ff, \hffff, \h10000, \h10ffff, \hd800, \h110000}
UnitsDef == [e \in {"utf8", "utf16", "utf16be", "utf32"} |->
  CASE e = "utf8" -> {\h41, \hbf, \hc3, \hed, \hf4, \hff}
    [] e = "utf16" -> {\h41, \hd800, \hdc00}
    [] e = "utf16be" -> {}
    [] e = "utf32" -> {\hd800, \h10ffff, \h110000, \h110001}]
CharsDef == {0, 1, 10, 32, 34, 92, 97, 255}

TextInit == Init /\ StringInit
TextNext ==
  \/ str = <<>> /\ Next /\ UNCHANGED str
  \/ encoding = "utf8" /\ text = <<>> /\ Grow /\ UNCHANGED vars
TextSpec == TextInit /\ [][TextNext]_<<vars, str>>
=============================================================================
