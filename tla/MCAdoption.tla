----------------------------- MODULE MCAdoption -----------------------------
(* Two field nodes, one profile, and room for both in the registry.        *)
EXTENDS Adoption

With(replace, fails_, preempt) ==
  [replace |-> replace, fails |-> fails_, preempt |-> preempt]

MCSetups == {With(TRUE, FALSE, FALSE), With(FALSE, TRUE, FALSE)}
MCReplaceSetups == {With(TRUE, FALSE, FALSE)}
MCFailSetups == {With(FALSE, TRUE, FALSE)}
MCReplaceFailSetups == {With(TRUE, TRUE, FALSE)}
MCPreemptSetups == {With(FALSE, FALSE, TRUE)}
=============================================================================
