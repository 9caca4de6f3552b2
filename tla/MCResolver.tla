----------------------------- MODULE MCResolver -----------------------------
(***************************************************************************)
(* A small instance of Resolver: a container in a burstable pod under the  *)
(* systemd driver, one in a guaranteed pod under a nested cgroupfs driver, *)
(* and a container outside of the kube subtree.                            *)
(***************************************************************************)
EXTENDS Resolver, TLC

MCPathOf ==
  << << <<"kubepods.slice">>, <<"kubepods-qos.slice", "burstable">>,
        <<"kubepods-pod.slice", "burstable", <<"a", "_", "1">> >>,
        <<"container", "c1">> >>,
     << <<"other">>, <<"container", "c0">>, <<"kubepods">>,
        <<"pod", <<"b", "-", "2">> >>, <<"container", "c2">> >>,
     << <<"other">>, <<"container", "c0">> >> >>

MCOwnerOf ==
  << [uid |-> <<"a", "-", "1">>, container |-> "c1", qos |-> "burstable"],
     [uid |-> <<"b", "-", "2">>, container |-> "c2", qos |-> "guaranteed"],
     NoPod >>

\* The second pod is a static one, for which the API server has a mirror pod
\* with another UID.
MCWatched == {MCOwnerOf[1].uid}

\* A directory of the kube subtree above the pods'.
ASSUME NoPodAbove == ParsePath(<< <<"kubepods">>, <<"qos", "besteffort">> >>) = NoPod

Symmetry == Permutations(Callers)
=============================================================================
