------------------------------ MODULE MCIngest ------------------------------
(***************************************************************************)
(* A source of two columns, read two rows at a time by a job that may be   *)
(* run twice: without a row, with one of text, with numbers next to text   *)
(* and a row of another width, and with a column whose last row turns it   *)
(* into text, unless an unordered page has read that row first.            *)
(***************************************************************************)
EXTENDS Ingest

MCTables ==
  { <<>>,
    << <<"word", "blank">> >>,
    << <<"float", "word">>, <<"int">>, <<"padded", "blank">> >>,
    << <<"int", "float">>, <<"int", "int">>, <<"float", "word">> >> }
=============================================================================
