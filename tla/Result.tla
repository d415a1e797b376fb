-------------------------------- MODULE Result --------------------------------
(* fiberize's Result: a union of a value and an exception with its tag, the  *)
(* way the outcome of a future's function travels to those that await it.    *)
EXTENDS Naturals

CONSTANTS Values, Exceptions   \* what a function may return, and throw

ASSUME OutcomeAssumption == Values \cap Exceptions = {}

Outcomes == Values \union Exceptions

(* construct, for each member of the union; reading the other one is not     *)
(* defined.                                                                  *)
HoldValue(v) == [isValue |-> TRUE, value |-> v]
HoldException(e) == [isValue |-> FALSE, exception |-> e]

\* Mutant: the tag of the copied result is lost.
CopyAsValue(r) == HoldValue(IF r.isValue THEN r.value ELSE r.exception)

(* The copy and the move constructor: by the tag of the other one.           *)
Copy(r) == IF r.isValue THEN HoldValue(r.value) ELSE HoldException(r.exception)

(* result(closure): what it returns, or what it threw.                       *)
ResultOf(outcome) ==
  IF outcome \in Values THEN HoldValue(outcome) ELSE HoldException(outcome)

(* get() gives the value back or throws the exception.                       *)
Returns(r) == IF r.isValue THEN {r.value} ELSE {}
Throws(r) == IF r.isValue THEN {} ELSE {r.exception}
===============================================================================
