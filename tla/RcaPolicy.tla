------------------------------ MODULE RcaPolicy ------------------------------
(***************************************************************************)
(* The semantic validation of root cause analysis fields (rca/policy.py)   *)
(* and the text the RCA route validates with it (app/routes/incidents.py). *)
(* A text is what the policy can tell of it: its length after strip() and  *)
(* whether the placeholder pattern occurs in it.  Texts come without       *)
(* surrounding white space, so a blank text is one of length zero.         *)
(***************************************************************************)
EXTENDS Naturals

CONSTANTS
  MinLength,    \* settings.rca_min_length (20)
  MaxLength,    \* settings.rca_max_length (5000)
  LabelLength   \* the characters of the two headings the RCA route adds (32)

ASSUME PolicyAssumption ==
  /\ MinLength \in Nat \ {0}
  /\ LabelLength \in Nat
  /\ MaxLength \in Nat
  /\ MinLength <= LabelLength

Text == [len : Nat, placeholder : BOOLEAN]

Blank(text) == text.len = 0

\* RcaPolicy._check_field returns no error.
CheckField(text) ==
  /\ text.len >= MinLength
  /\ text.len <= MaxLength
  /\ ~text.placeholder

\* RcaPolicy.validate returns no error.
Validate(rootCause, description) == CheckField(rootCause) /\ CheckField(description)

\* submit_rca's merged_description: "Fix Applied:..Prevention Steps:..".  The line
\* break before an empty second part is stripped.
Merged(fix, prevention) ==
  [len |-> LabelLength + fix.len + (IF Blank(prevention) THEN 0 ELSE prevention.len + 1),
   placeholder |-> fix.placeholder \/ prevention.placeholder]
==============================================================================
