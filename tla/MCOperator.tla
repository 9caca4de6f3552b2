----------------------------- MODULE MCOperator -----------------------------
(***************************************************************************)
(* A small instance of Operator: one object of each kind, a valid and an   *)
(* invalid spec.                                                           *)
(***************************************************************************)
EXTENDS Operator, TLC

MCKeys == {[namespace |-> 1, name |-> 1], [namespace |-> 0, name |-> 1]}

SpecRule == [f \in DOMAIN BlankRule \ {"pod"} |-> BlankRule[f]]

MCSpecs ==
  { [podSelector |-> EmptySelector, defaultAction |-> PostureDeny, rules |-> rules] :
      rules \in { << SpecRule >>,
                  << SpecRule, [SpecRule EXCEPT !["action"] = ActionModify] >> } }
=============================================================================
