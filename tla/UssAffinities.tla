----------------------------- MODULE UssAffinities -----------------------------
(***************************************************************************)
(* The list of accelerator types that a client registers with              *)
(* (library/uss_library.cpp, libuss_register_at_daemon): the library walks *)
(* through the types the client implements, and sorts what it found by     *)
(* descending affinity.  Each loop is a recursive function of the number   *)
(* of its iterations.                                                      *)
(***************************************************************************)
EXTENDS Integers, Sequences

CONSTANTS
  NofTypes,      \* USS_NOF_SUPPORTED_ACCEL
  MaxTransport   \* USS_MAX_MSI_TRANSPORT

ASSUME TransportAssumption == NofTypes \in Nat /\ MaxTransport \in Nat

Element == [type : Nat, affinity : Nat]

\* The list after the first i types; f gives the affinity for a type that the
\* client implements.
FilledTo(f) ==
  LET filled[i \in Nat] ==
        IF i = 0 THEN <<>>
        ELSE IF i - 1 \in DOMAIN f /\ Len(filled[i - 1]) < MaxTransport
             THEN Append(filled[i - 1], [type |-> i - 1, affinity |-> f[i - 1]])
             ELSE filled[i - 1]
  IN filled

Filled(f) == FilledTo(f)[NofTypes]

Exchanged(msai, i) == [msai EXCEPT ![i] = msai[i + 1], ![i + 1] = msai[i]]

\* A variant of Bubble that sorts the worst type to the front.
BubbleReversed(s, i) == IF s.msai[i].affinity > s.msai[i + 1].affinity
                        THEN [msai |-> Exchanged(s.msai, i), exchanged |-> TRUE]
                        ELSE s

Bubble(s, i) == IF s.msai[i].affinity < s.msai[i + 1].affinity
                THEN [msai |-> Exchanged(s.msai, i), exchanged |-> TRUE]
                ELSE s

\* A pass after i comparisons.
Pass(msai) ==
  LET pass[i \in 0..(Len(msai) - 1)] ==
        IF i = 0 THEN [msai |-> msai, exchanged |-> FALSE] ELSE Bubble(pass[i - 1], i)
  IN pass

\* The sort after at most k passes, each one shorter than the one before; it ends
\* with a pass without exchange.
Passes(msai) ==
  LET passes[k \in Nat] ==
        IF k = 0 THEN [msai |-> msai, exchanged |-> TRUE]
        ELSE IF passes[k - 1].exchanged /\ k <= Len(msai)
             THEN Pass(passes[k - 1].msai)[Len(msai) - k]
             ELSE passes[k - 1]
  IN passes

Sorted(msai) == Passes(msai)[Len(msai)].msai
================================================================================
