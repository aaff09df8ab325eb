------------------------------- MODULE Serving -------------------------------
(***************************************************************************)
(* Connections: clients that pin a certificate or an endpoint id and dial  *)
(* (lib.rs, transport/quic.rs, transport/iroh.rs), and the accept loops of *)
(* the processes of KeyStore (bin/wgpu-remote-server.rs).                  *)
(*                                                                         *)
(* accept takes the oldest incoming connection and awaits its handshake    *)
(* before it takes the next. A handshake succeeds if the client trusts the *)
(* server and finds the name it asked for in the leaf, fails if not, and   *)
(* fails of the idle timeout when the client is not heard of. Over QUIC    *)
(* the loop goes on after a failure; over iroh it is left and the process  *)
(* ends.                                                                   *)
(***************************************************************************)
EXTENDS KeyStore, Sequences

CONSTANTS
    MaxDials,   (* bound: how many connections are attempted               *)
    Names,      (* server names clients ask for                            *)
    Localhost,  (* the name that connect_quic asks for                     *)
    ExtraSans,  (* names given with --san                                  *)
    ById        (* in place of a name: iroh dials an endpoint id           *)

Dials == 1..MaxDials

ASSUME ServingAssumption ==
    /\ MaxDials \in Nat
    /\ Localhost \in Names /\ ExtraSans \subseteq Names /\ ById \notin Names

VARIABLES
    pins,      (* certificates that clients have copied                    *)
    dialled,   (* connections attempted so far                             *)
    status,    (* what each attempt came to                                *)
    queue,     (* incoming connections of each endpoint, oldest first      *)
    hand,      (* the one whose handshake accept awaits: none or one       *)
    conns      (* the connections each process serves                      *)

serveVars == <<pins, dialled, status, queue, hand, conns>>
vars      == <<keyVars, serveVars>>

Statuses == {"unused", "waiting", "served", "refused", "gone", "cut", "ended"}

(* An attempt: the certificate it trusts, if any, and the name it asks for.*)
Incoming == [id : Dials, version : 0..MaxKeys, name : Names \cup {ById}]
Members(s) == {s[k] : k \in DOMAIN s}

SInit ==
    /\ Init
    /\ pins = {} /\ dialled = 0
    /\ status = [a \in Dials |-> "unused"]
    /\ queue = [p \in Procs |-> <<>>] /\ hand = [p \in Procs |-> <<>>]
    /\ conns = [p \in Procs |-> {}]

-----------------------------------------------------------------------------
(* Clients.                                                                *)

(* Somebody copies a certificate from the server's disk. A torn one is of  *)
(* no use: roots.add refuses it and no connection is attempted.            *)
Copy(v) ==
    /\ v \in {cert, out} \cap Versions
    /\ pins' = pins \cup {v}
    /\ UNCHANGED <<keyVars, dialled, status, queue, hand, conns>>

Attempt(p, v, n) ==
    /\ dialled < MaxDials
    /\ dialled' = dialled + 1
    /\ status' = [status EXCEPT ![dialled'] = "waiting"]
    /\ queue' = [queue EXCEPT ![p] =
                    Append(@, [id |-> dialled', version |-> v, name |-> n])]
    /\ UNCHANGED <<keyVars, pins, hand, conns>>

(* connect_quic and connect_quic_with_server_name reach whoever listens at *)
(* the address.                                                            *)
DialQuic(p, v, n) == HoldsPort(p) /\ v \in pins /\ Attempt(p, v, n)

(* connect_iroh reaches an endpoint by its id.                             *)
DialIroh(p) ==
    mode[p] = "iroh" /\ pc[p] \in Listening /\ Attempt(p, 0, ById)

(* The client's end: its user drops the future of connect or the           *)
(* connection, its own idle timeout ends a connect that has to wait behind *)
(* another's handshake, or it just falls silent. run_connection returns    *)
(* when accept_bi fails.                                                   *)
Leave(a) ==
    /\ status[a] \in {"waiting", "served"}
    /\ status' = [status EXCEPT ![a] = "gone"]
    /\ conns' = [p \in Procs |-> conns[p] \ {a}]
    /\ UNCHANGED <<keyVars, pins, dialled, queue, hand>>
-----------------------------------------------------------------------------
(* The accept loop.                                                        *)

Attempts(p) == {r.id : r \in Members(queue[p]) \cup Members(hand[p])}

(* What becomes of the connections of a process that ends: the endpoint is *)
(* closed and the runtime drops every task.                                *)
Disconnect(p, s) ==
    /\ status' = [a \in Dials |->
          IF a \in conns[p] \/ (a \in Attempts(p) /\ status[a] = "waiting")
          THEN s ELSE status[a]]
    /\ queue' = [queue EXCEPT ![p] = <<>>]
    /\ hand' = [hand EXCEPT ![p] = <<>>]
    /\ conns' = [conns EXCEPT ![p] = {}]
    /\ UNCHANGED <<pins, dialled>>

(* endpoint.accept(): the oldest incoming connection.                      *)
Take(p) ==
    /\ pc[p] = "up" /\ hand[p] = <<>> /\ queue[p] # <<>>
    /\ hand' = [hand EXCEPT ![p] = <<Head(queue[p])>>]
    /\ queue' = [queue EXCEPT ![p] = Tail(@)]
    /\ UNCHANGED <<keyVars, pins, dialled, status, conns>>

(* The names a server answers to. --san is for the CA mode only.           *)
Sans(p) == CASE mode[p] = "ca"   -> {Localhost} \cup ExtraSans
             [] mode[p] = "self" -> {Localhost}
             [] OTHER            -> {ById}

(* issue_server_cert: signed with the key, whatever the certificate is.    *)
Leaf(p) == [signer |-> mem[p].key, names |-> Sans(p)]

(* The client verifies the leaf, by the certificate it pinned and the name *)
(* it asked for; an endpoint found by its id proves to be the one.         *)
Accepts(r, p) ==
    /\ r.name \in Leaf(p).names
    /\ mode[p] # "iroh" => r.version = Leaf(p).signer

(* incoming.await returns a connection: run_connection is spawned.         *)
HandshakeDone(p) ==
    /\ hand[p] # <<>>
    /\ LET r == Head(hand[p]) IN
          /\ status[r.id] = "waiting" /\ Accepts(r, p)
          /\ status' = [status EXCEPT ![r.id] = "served"]
          /\ conns' = [conns EXCEPT ![p] = @ \cup {r.id}]
    /\ hand' = [hand EXCEPT ![p] = <<>>]
    /\ UNCHANGED <<keyVars, pins, dialled, queue>>

(* A peer that is not heard of is awaited for ever: no idle timeout.       *)
Fails_Patient(p) ==
    /\ hand[p] # <<>>
    /\ LET r == Head(hand[p]) IN status[r.id] = "waiting" /\ ~Accepts(r, p)

(* The handshake fails: the client refuses the server, or nothing is heard *)
(* of it until the idle timeout.                                           *)
Fails(p) ==
    /\ hand[p] # <<>>
    /\ LET r == Head(hand[p]) IN status[r.id] = "waiting" => ~Accepts(r, p)

(* The error ends the loop, as over iroh.                                  *)
QuicFails_Break(p) ==
    /\ Fails(p) /\ mode[p] # "iroh"
    /\ Die(p) /\ Disconnect(p, "ended")

(* serve_quic prints the error and goes on.                                *)
QuicFails(p) ==
    /\ Fails(p) /\ mode[p] # "iroh"
    /\ status' = [status EXCEPT ![Head(hand[p]).id] =
                     IF @ = "waiting" THEN "refused" ELSE @]
    /\ hand' = [hand EXCEPT ![p] = <<>>]
    /\ UNCHANGED <<keyVars, pins, dialled, queue, conns>>

(* serve_iroh breaks out of its loop and main returns.                     *)
IrohFails(p) ==
    /\ Fails(p) /\ mode[p] = "iroh"
    /\ Die(p) /\ Disconnect(p, "ended")

Crash(p) == Die(p) /\ Disconnect(p, "cut")

ProcStep(p) == \/ StartUp(p) /\ UNCHANGED serveVars
               \/ Take(p) \/ HandshakeDone(p) \/ QuicFails(p) \/ IrohFails(p)

Next == \/ \E p \in Procs : ProcStep(p) \/ Crash(p) \/ DialIroh(p)
        \/ \E p \in Procs, m \in Modes : Start(p, m) /\ UNCHANGED serveVars
        \/ CleanUp /\ UNCHANGED serveVars
        \/ \E v \in Versions : Copy(v)
        \/ \E p \in Procs, v \in pins, n \in Names : DialQuic(p, v, n)
        \/ \E a \in Dials : Leave(a)

Spec == SInit /\ [][Next]_vars

(* The server's runtime polls what is ready, and a handshake that hears    *)
(* nothing ends with the idle timeout. Nobody has to start a server, to    *)
(* dial, to leave or to crash.                                             *)
FairSpec == Spec /\ \A p \in Procs : WF_vars(ProcStep(p))
-----------------------------------------------------------------------------
(* Properties.                                                             *)

TypeOK ==
    /\ KeyTypeOK
    /\ pins \in SUBSET Versions /\ dialled \in 0..MaxDials
    /\ status \in [Dials -> Statuses]
    /\ queue \in [Procs -> Seq(Incoming)] /\ hand \in [Procs -> Seq(Incoming)]
    /\ conns \in [Procs -> SUBSET Dials]

(* Attempt a waits at a server that its client would accept.               *)
Trusting(a) ==
    /\ status[a] = "waiting"
    /\ \E p \in Procs : \E r \in Members(queue[p]) \cup Members(hand[p]) :
          r.id = a /\ Accepts(r, p)

(* A client that trusts the server it has dialled is served in its turn,   *)
(* whatever those in front of it do (refuse the certificate, fall silent,  *)
(* go away), unless it leaves itself or the server ends.                   *)
ServedInTurn ==
    \A a \in Dials :
        Trusting(a) ~> status[a] \in {"served", "gone", "cut", "ended"}

(* What becomes of a QUIC server's connections, served or on their way, is *)
(* up to their own clients or comes of the process being killed: another   *)
(* client's handshake ends none of them. Over iroh it may.                 *)
OthersDoNotMatter ==
    [][\A p \in Procs : mode[p] # "iroh" =>
          \A a \in conns[p] \cup Attempts(p) : status'[a] # "ended"]_vars
=============================================================================
