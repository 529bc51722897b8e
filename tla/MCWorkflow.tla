------------------------------ MODULE MCWorkflow ------------------------------
(***************************************************************************)
(* Instances of Workflow for TLC.  The policy's bounds are scaled down; a  *)
(* text is blank, sound, a placeholder, or too long, and two sound texts   *)
(* under the headings of the RCA route are too long together.              *)
(***************************************************************************)
EXTENDS Workflow, TLC

MCMinLength == 2
MCMaxLength == 7
MCLabelLength == 3

MCTexts ==
  {[len |-> 0, placeholder |-> FALSE], [len |-> 2, placeholder |-> FALSE],
   [len |-> 2, placeholder |-> TRUE], [len |-> 8, placeholder |-> FALSE]}

\* One text, and room for two of it under the headings: enough where the texts are not
\* the point.
MCOneText == {[len |-> 2, placeholder |-> FALSE]}
MCRoomyMaxLength == 8

MCTwoSeverities == {"P0", "P2"}
MCOneSeverity == {"P0"}

MCSymmetry == Permutations(Requests) \union Permutations(Workers)
==============================================================================
