----------------------------- MODULE SorobanHost -----------------------------
(***************************************************************************)
(* The part of the Soroban host that the contracts rely on: the 32-bit     *)
(* ledger sequence and the lifetime of a contract's instance entry.  The   *)
(* host is not part of the repository; what is said of it here is what the *)
(* contracts' bump_instance_ttl calls and their comments use.  All lengths *)
(* are in ledgers, and every constant is the code's value scaled down.     *)
(***************************************************************************)
EXTENDS Integers

CONSTANTS
    U32Max,        \* largest ledger sequence, u32::MAX
    MinTtl,        \* lifetime the host gives a created or restored entry
    TtlThreshold,  \* INSTANCE_TTL_THRESHOLD
    TtlExtendTo    \* INSTANCE_TTL_EXTEND_TO

ASSUME HostAssumption ==
    /\ U32Max \in Nat
    /\ MinTtl \in Nat
    /\ TtlThreshold \in Nat
    /\ TtlExtendTo \in Nat

Ledger == 0 .. U32Max

\* a + b in u32 arithmetic that saturates instead of wrapping.
SaturatingAdd(a, b) == IF a + b > U32Max THEN U32Max ELSE a + b

\* The instance entry can be read while its life has not run out.
Alive(liveUntil, now) == now <= liveUntil

\* extend_ttl(threshold, extend_to): nothing happens while more than
\* threshold ledgers of life remain, and a life is never shortened.
ExtendTtl(liveUntil, now) ==
    LET extended == SaturatingAdd(now, TtlExtendTo)
    IN  IF liveUntil - now <= TtlThreshold /\ extended > liveUntil
        THEN extended
        ELSE liveUntil

\* The life of an entry that has just been created or restored.
FreshTtl(now) == SaturatingAdd(now, MinTtl)
=============================================================================
