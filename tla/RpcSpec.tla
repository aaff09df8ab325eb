------------------------------ MODULE RpcSpec ------------------------------
(***************************************************************************)
(* What the client layer of wgpu-remote promises its callers: an at-most-  *)
(* once, first-in-first-out remote call. Calls are identified by a request *)
(* id. A call that has been issued takes its place in one global order;    *)
(* the server executes issued calls in that order and leaves no gap; a     *)
(* request is answered only with the answer to its own action and only     *)
(* after the action has been executed; a call may instead fail at any      *)
(* time, and a failed call may or may not have been executed.              *)
(***************************************************************************)
EXTENDS Naturals, Sequences

CONSTANTS Ids,       (* request ids                                        *)
          Requests,  (* actions whose answer the caller awaits             *)
          Sends,     (* fire-and-forget actions                            *)
          NoCall     (* marks an id that has not been used                 *)

Actions == Requests \cup Sends

VARIABLES call,     (* the action each id was minted for                   *)
          issued,   (* ids in the order in which they were issued          *)
          served,   (* ids in the order in which the server executed them  *)
          outcome   (* what each call came to                              *)

rpcVars == <<call, issued, served, outcome>>

(* What a call can come to without an answer. "returned" is a fire-and-    *)
(* forget call giving control back to its caller.                          *)
Failures == {"returned", "closed", "toolarge", "transport", "cancelled"}

Members(s) == {s[k] : k \in DOMAIN s}

Init == /\ call = [i \in Ids |-> NoCall]
        /\ issued = <<>>
        /\ served = <<>>
        /\ outcome = [i \in Ids |-> "none"]

Begin(i, a) ==
    /\ call[i] = NoCall
    /\ call' = [call EXCEPT ![i] = a]
    /\ \E o \in {"open"} \cup Failures : outcome' = [outcome EXCEPT ![i] = o]
    /\ UNCHANGED <<issued, served>>

(* A send returns to its caller as it is issued, a request stays open. A    *)
(* request that has just been failed may still be issued.                  *)
Issue(i) ==
    /\ outcome[i] \in {"open", "closed"}
    /\ i \notin Members(issued)
    /\ issued' = Append(issued, i)
    /\ outcome' = IF call[i] \in Sends
                  THEN [outcome EXCEPT ![i] = "returned"] ELSE outcome
    /\ UNCHANGED <<call, served>>

(* The server executes the next issued call: none twice, none out of turn. *)
Execute ==
    /\ Len(served) < Len(issued)
    /\ served' = Append(served, issued[Len(served) + 1])
    /\ UNCHANGED <<call, issued, outcome>>

Answer(i) ==
    /\ outcome[i] = "open"
    /\ i \in Members(served)
    /\ outcome' = [outcome EXCEPT ![i] = call[i]]
    /\ UNCHANGED <<call, issued, served>>

(* Any set of open calls may fail together.                                *)
Fail(S) ==
    /\ \A i \in S : outcome[i] = "open"
    /\ \E f \in Failures :
          outcome' = [i \in Ids |-> IF i \in S THEN f ELSE outcome[i]]
    /\ UNCHANGED <<call, issued, served>>

Next == \/ \E i \in Ids, a \in Actions : Begin(i, a)
        \/ \E i \in Ids : Issue(i) \/ Answer(i)
        \/ Execute
        \/ \E S \in SUBSET Ids : Fail(S)

Spec == Init /\ [][Next]_rpcVars
=============================================================================
