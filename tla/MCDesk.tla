-------------------------------- MODULE MCDesk --------------------------------
(* A small instance of Desk: two spellings of one combination, one that is *)
(* the browser's, one that is none.                                        *)
EXTENDS Desk

MCNorm == [c \in Typed |->
    CASE c = "Ctrl+S" -> "Ctrl+S" [] c = "shift+ctrl+p" -> "Ctrl+Shift+P"
      [] c = "Ctrl+K" -> "Ctrl+K" [] c = "Ctrl+Shift+P" -> "Ctrl+Shift+P"
      [] c = "Ctrl+W" -> "Ctrl+W" [] OTHER -> ""]
MCDefault == [a \in Actions |-> IF a = "save" THEN "Ctrl+S" ELSE "Ctrl+K"]
MCLists == {<<>>, <<"a", "a">>, <<"b", "c">>}
=============================================================================
