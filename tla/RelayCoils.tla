------------------------------ MODULE RelayCoils ------------------------------
(***************************************************************************)
(* The coils behind the relays, and which of them a write for a relay may  *)
(* move.  The configuration's slave id is any number, and what becomes of  *)
(* a write depends on it (see ModbusManager): a slave's own id reaches its *)
(* coil; 0 is the broadcast, which every slave obeys and none answers; any *)
(* other id is refused by libmodbus, nothing looks at the refusal, and the *)
(* write goes to the slave selected before.                                *)
(***************************************************************************)
EXTENDS Integers

CONSTANTS
  Relays,  \* the configured relays, by name
  CoilOf   \* the slave id and the address configured for each of them

Unicast(r)   == CoilOf[r][1] \in 1..247
Broadcast(r) == CoilOf[r][1] = 0

\* The coils that relays stand for.
Coils == {CoilOf[r] : r \in {q \in Relays : Unicast(q)}}

\* Those a write for r may move.
Reach(r) ==
  IF Unicast(r) THEN {CoilOf[r]} ELSE {c \in Coils : c[2] = CoilOf[r][2]}

\* The relays that stand for one of them.
Reached(r) == {q \in Relays : Unicast(q) /\ CoilOf[q] \in Reach(r)}

\* The sets of coils a confirmed write for r may have moved: one slave answered,
\* which behind a refused id may be one that no relay stands for.
Confirmed(r) ==
  IF Broadcast(r)
    THEN {}
    ELSE {{c} : c \in Reach(r)} \cup {S \in {{}} : ~Unicast(r)}

\* And those that attempts without an answer may have moved.
Attempted(r) == SUBSET Reach(r)

\* The coils after a write that moved those of S.
After(coils, S, state) == [c \in Coils |-> IF c \in S THEN state ELSE coils[c]]

============================================================================
