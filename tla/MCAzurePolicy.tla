--------------------------- MODULE MCAzurePolicy ---------------------------
(* Model-checking instance of AzurePolicy: a backend whose DELETE resets     *)
(* the container, leaves it as it is, or forgets the stored policies.      *)
EXTENDS AzurePolicy

CONSTANTS none

MCErrors == Exceptions

MCResetEffects ==
    {Policy("private", "empty"), Policy("private", "null"),
     Policy("container", "e2e"), Policy("container", "empty"),
     Policy("private", "other")}

\* A backend whose DELETE leaves storedAccessPolicies as a non-list value.
MCResetNonList == {Policy("private", "nonlist")}
=============================================================================
