--------------------------- MODULE BackendOptions ---------------------------
(***************************************************************************)
(* BackendOptions of include/dsio/backend.hpp, the bounds on what a caller *)
(* of a backend does, and what the models of both backends are written     *)
(* with.                                                                   *)
(***************************************************************************)
EXTENDS Integers, Sequences, FiniteSets

CONSTANTS
  Depth,        (* queue_depth                                              *)
  ThreadCounts, (* the values of `threads' a caller may ask for             *)
  MaxRequests,  (* bound: requests submitted in a behaviour                 *)
  MaxMin,       (* bound: the `min' a caller passes to reap                 *)
  MaxRoom       (* bound: the out.size() a caller passes to reap            *)

ASSUME DepthAssumption == Depth \in Nat \ {0}
ASSUME ThreadsAssumption == ThreadCounts \subseteq Nat
ASSUME BoundsAssumption == MaxRequests \in Nat /\ MaxMin \in Nat /\ MaxRoom \in Nat

Smaller(a, b) == IF a < b THEN a ELSE b
Elements(s) == {s[i] : i \in DOMAIN s}
=============================================================================
