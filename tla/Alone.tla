-------------------------------- MODULE Alone --------------------------------
(***************************************************************************)
(* What the server promises the users of the facade: each session is       *)
(* answered as if it were alone with a server that carries out one frame   *)
(* at a time. A submission happens as a whole or not at all, a read sees   *)
(* what the session's own earlier frames left, and a name is unknown only  *)
(* if its creation failed or was not sent, or its owner destroyed it.      *)
(*                                                                         *)
(* A handler dies of an invalid call of its own session. It may take the   *)
(* resource tables with it; the other sessions are then promised no answer,*)
(* but the answers they do get are still right.                            *)
(***************************************************************************)
EXTENDS Facade

VARIABLES
    store,    (* by session: the contents of its resources, or Absent      *)
    done,     (* what a session's frame came to, before it is answered     *)
    dead,     (* sessions whose handler has died                           *)
    wrecked   (* an invalid call took the tables with it                   *)

aloneVars == <<facadeVars, store, done, dead, wrecked>>

Absent  == MaxValue + 1
Pending == [code |-> "pending"]
Ok      == [code |-> "ok"]
Unknown == [code |-> "unknown"]
Invalid == [code |-> "invalid"]
Internal == [code |-> "internal"]
Data(v) == [code |-> "data", value |-> v]

(* What a list of commands leaves of contents.                             *)
Apply(c, cmd) ==
    CASE cmd.op = "write" -> [c EXCEPT ![cmd.to] = cmd.value]
      [] cmd.op = "clear" -> [c EXCEPT ![cmd.to] = 0]
      [] cmd.op = "copy"  -> [c EXCEPT ![cmd.to] = c[cmd.from]]
      [] OTHER            -> c
Run(c, cmds) ==
    LET run[n \in 0..Len(cmds)] ==
            IF n = 0 THEN c ELSE Apply(run[n - 1], cmds[n])
    IN  run[Len(cmds)]
RunAll(c, recs) ==
    LET all[n \in 0..Len(recs)] ==
            IF n = 0 THEN c ELSE Run(all[n - 1], recs[n])
    IN  all[Len(recs)]

AloneInit ==
    /\ FacadeInit
    /\ store = [s \in Sessions |-> [r \in Names |-> Absent]]
    /\ done = [s \in Sessions |-> Pending]
    /\ dead = {} /\ wrecked = FALSE

-----------------------------------------------------------------------------
Known(s, refs) == \A r \in refs : store[s][r] # Absent

(* The one outcome of a frame: what it leaves, and what is answered.       *)
Outcome(s, contents, a) ==
    /\ done' = [done EXCEPT ![s] = a]
    /\ store' = [store EXCEPT ![s] = contents]

Named(f) ==
    CASE f.op \in {"create", "derive"} -> f.refs
      [] f.op \in {"write", "read"}    -> {f.name}
      [] f.op = "submit" -> UNION {UNION {Uses(f.recs[i][j]) :
                                             j \in DOMAIN f.recs[i]} :
                                      i \in DOMAIN f.recs}
      [] OTHER -> {}

Succeed(s, f) ==
    /\ f.op \notin {"ack", "destroy"} => f.flaw = "none" /\ Known(s, Named(f))
    /\ LET c == store[s] IN
       CASE f.op \in {"create", "derive"} -> Outcome(s, [c EXCEPT ![f.name] = 0], Ok)
         [] f.op = "write" -> Outcome(s, [c EXCEPT ![f.name] = f.value], Ok)
         [] f.op = "read"  -> Outcome(s, c, Data(c[f.name]))
         [] f.op = "submit" -> Outcome(s, RunAll(c, f.recs), Ok)
         [] f.op = "destroy" -> Outcome(s, IF f.name.kind = "buffer"
                                           THEN [c EXCEPT ![f.name] = Absent]
                                           ELSE c, Ok)
         [] f.op = "ack" -> Outcome(s, c, Ok)

Fail(s, f) ==
    \/ ~Known(s, Named(f)) /\ Outcome(s, store[s], Unknown)
    \/ f.op \in {"create", "submit"} /\ f.flaw = "unsupported" /\ Outcome(s, store[s], Invalid)
    \/ f.op = "read" /\ Outcome(s, store[s], Internal)

Execute(s) ==
    /\ frame[s] # NoFrame /\ done[s] = Pending /\ s \notin dead
    /\ Succeed(s, frame[s]) \/ Fail(s, frame[s])
    /\ UNCHANGED <<facadeVars, dead, wrecked>>

Reply(s) ==
    /\ done[s] # Pending
    /\ done' = [done EXCEPT ![s] = Pending]
    /\ frame' = [frame EXCEPT ![s] = NoFrame]
    /\ UNCHANGED <<minted, live, store, dead, wrecked>>

Crash(s) ==
    /\ frame[s] # NoFrame /\ s \notin dead
    /\ dead' = dead \cup {s}
    /\ \/ "flaw" \in DOMAIN frame[s] /\ frame[s].flaw = "invalid"
          /\ wrecked' \in {wrecked, TRUE}
       \/ wrecked /\ UNCHANGED wrecked
    /\ UNCHANGED <<facadeVars, store, done>>

(* Whatever a user asks next, if the frame is sent at all.                 *)
Ask(s) ==
    /\ frame[s] = NoFrame
    /\ frame' = [frame EXCEPT ![s] = frame'[s]]
    /\ UNCHANGED <<store, done, dead, wrecked>>

Next == \E s \in Sessions : Ask(s) \/ Execute(s) \/ Reply(s) \/ Crash(s)

Spec == AloneInit /\ [][Next]_aloneVars
=============================================================================
