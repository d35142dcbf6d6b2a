---------------------------- MODULE MCScriptLife ----------------------------
(* Everything a script may print in up to four letters and blanks.         *)
EXTENDS ScriptLife

ShortOutputs == BoundedSeq({"x", " "}, 4)
=============================================================================
