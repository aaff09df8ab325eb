------------------------------ MODULE KeyStore ------------------------------
(***************************************************************************)
(* The certificates and keys a server identifies itself with, and the life *)
(* of a server process up to its accept loop: transport/pki.rs and         *)
(* bin/wgpu-remote-server.rs.                                              *)
(*                                                                         *)
(* A process serves with a CA of its own (mode "ca"), with a throwaway     *)
(* certificate ("self") or over iroh ("iroh"), or only writes a new CA     *)
(* ("init"). It may die at any step, of a crash or of an error of the file *)
(* system; fs::write truncates a file before it fills it. What a process   *)
(* holds in memory dies with it, the files stay.                           *)
(*                                                                         *)
(* A key pair, the certificate made with it and the identity it proves are *)
(* one version number. A leaf is signed with the key and sent along with   *)
(* the certificate, which from_der takes from disk as it is.               *)
(***************************************************************************)
EXTENDS Naturals

CONSTANTS
    Procs,     (* server processes that exist at a time                    *)
    Modes,     (* which of "ca", "self", "iroh" and "init" are started     *)
    MaxKeys,   (* bound: how many key pairs are generated                  *)
    Careful,   (* TRUE: no two processes are at the CA's files at a time,  *)
               (* and init-ca is not run where both files exist            *)
    Absent,    (* a file that does not exist                               *)
    Torn       (* a file that was truncated and not filled                 *)

ASSUME SomeProcess == Procs # {}

ASSUME KeyStoreAssumption ==
    /\ MaxKeys \in Nat /\ Careful \in BOOLEAN
    /\ Modes \subseteq {"ca", "self", "iroh", "init"}
    /\ Absent \notin Nat /\ Torn \notin Nat /\ Absent # Torn

Versions == 1..MaxKeys
Contents == Versions \cup {Absent, Torn}

VARIABLES
    cert, key,   (* --ca-cert and --ca-key                                 *)
    out,         (* --cert-out of the self-signed mode                     *)
    pc, mode,    (* where each process stands, and what it was started as  *)
    mem,         (* the certificate and the key each process holds         *)
    minted,      (* key pairs generated so far                             *)
    announced    (* history: certificates whose save has completed         *)

fileVars == <<cert, key, out>>
keyVars  == <<fileVars, pc, mode, mem, minted, announced>>

(* A process at these points is at work on the files of the CA, ...        *)
AtFiles   == {"probeCert", "probeKey", "loadCert", "loadKey", "generate",
              "cutCert", "putCert", "cutKey", "putKey"}
(* ... and at these its endpoint exists and takes in connections.          *)
Listening == {"cutOut", "putOut", "bound", "up"}

UsesCa(p)    == mode[p] \in {"ca", "init"}
HoldsPort(p) == mode[p] \in {"ca", "self"} /\ pc[p] \in Listening

Nothing == [cert |-> Absent, key |-> Absent]

Init ==
    /\ cert = Absent /\ key = Absent /\ out = Absent
    /\ pc = [p \in Procs |-> "off"]
    /\ mode = [p \in Procs |-> "none"]
    /\ mem = [p \in Procs |-> Nothing]
    /\ minted = 0 /\ announced = {}

Goto(p, l) == pc' = [pc EXCEPT ![p] = l]
Hold(p, m) == mem' = [mem EXCEPT ![p] = m]
Exit(p)    == /\ Goto(p, "off") /\ Hold(p, Nothing)
              /\ mode' = [mode EXCEPT ![p] = "none"]
-----------------------------------------------------------------------------
(* real_main: the command line chooses. An iroh endpoint needs no file and *)
(* no port of ours; its identity is new and is known only while it lives.  *)
Start(p, m) ==
    /\ pc[p] = "off"
    /\ Careful /\ m \in {"ca", "init"} =>
          /\ \A q \in Procs : UsesCa(q) => pc[q] \notin AtFiles
          /\ m = "init" => cert = Absent \/ key = Absent
    /\ mode' = [mode EXCEPT ![p] = m]
    /\ Goto(p, IF m = "ca" THEN "probeCert"
               ELSE IF m = "iroh" THEN "bound" ELSE "generate")
    /\ UNCHANGED <<fileVars, mem, minted, announced>>

(* A start does not look for an earlier CA.                                *)
Probe_Never(p) ==
    /\ pc[p] \in {"probeCert", "probeKey"}
    /\ Goto(p, "generate")
    /\ UNCHANGED <<fileVars, mode, mem, minted, announced>>

(* args.ca_cert.exists() && args.ca_key.exists().                          *)
Probe(p) ==
    /\ \/ /\ pc[p] = "probeCert"
          /\ Goto(p, IF cert # Absent THEN "probeKey" ELSE "generate")
       \/ /\ pc[p] = "probeKey"
          /\ Goto(p, IF key # Absent THEN "loadCert" ELSE "generate")
    /\ UNCHANGED <<fileVars, mode, mem, minted, announced>>

(* CertAuthority::load reads the certificate, whatever it contains ...     *)
LoadCert(p) ==
    /\ pc[p] = "loadCert"
    /\ \/ cert = Absent /\ Exit(p)
       \/ /\ cert # Absent
          /\ Goto(p, "loadKey") /\ Hold(p, [cert |-> cert, key |-> Absent])
          /\ UNCHANGED mode
    /\ UNCHANGED <<fileVars, minted, announced>>

(* Whatever the key file holds is taken for a key.                         *)
LoadKey_Unparsed(p) ==
    /\ pc[p] = "loadKey"
    /\ Goto(p, "bind") /\ Hold(p, [cert |-> mem[p].cert, key |-> key])
    /\ UNCHANGED <<fileVars, mode, minted, announced>>

(* ... and the key, which from_der parses: the process ends with an error  *)
(* if it cannot. The certificate is not compared with the key.             *)
LoadKey(p) ==
    /\ pc[p] = "loadKey"
    /\ \/ key \in {Absent, Torn} /\ Exit(p)
       \/ /\ key \in Versions
          /\ Goto(p, "bind") /\ Hold(p, [cert |-> mem[p].cert, key |-> key])
          /\ UNCHANGED mode
    /\ UNCHANGED <<fileVars, minted, announced>>

(* CertAuthority::generate, or the throwaway pair of QuicEndpoint::server. *)
Generate(p) ==
    /\ pc[p] = "generate" /\ minted < MaxKeys
    /\ minted' = minted + 1
    /\ Hold(p, [cert |-> minted', key |-> minted'])
    /\ Goto(p, IF UsesCa(p) THEN "cutCert" ELSE "bind")
    /\ UNCHANGED <<fileVars, mode, announced>>

(* CertAuthority::save: fs::write of the certificate, ...                  *)
SaveCert(p) ==
    /\ \/ pc[p] = "cutCert" /\ cert' = Torn /\ Goto(p, "putCert")
       \/ pc[p] = "putCert" /\ cert' = mem[p].cert /\ Goto(p, "cutKey")
    /\ UNCHANGED <<key, out, mode, mem, minted, announced>>

(* init-ca ends with the files written, a server goes on to bind.          *)
Saved(p) ==
    \/ mode[p] = "init" /\ Exit(p)
    \/ mode[p] = "ca" /\ Goto(p, "bind") /\ UNCHANGED <<mode, mem>>

(* ... then of the key.                                                    *)
SaveKey(p) ==
    /\ \/ /\ pc[p] = "cutKey" /\ key' = Torn
          /\ Goto(p, "putKey") /\ UNCHANGED <<mode, mem, announced>>
       \/ /\ pc[p] = "putKey" /\ key' = mem[p].key
          /\ announced' = announced \cup {mem[p].cert}
          /\ Saved(p)
    /\ UNCHANGED <<cert, out, minted>>

InUse(p) == \E q \in Procs \ {p} : HoldsPort(q)

(* The certificate is handed out before the port is ours.                  *)
Bind_AfterOut(p) ==
    /\ pc[p] = "bind"
    /\ \/ InUse(p) /\ Exit(p)
       \/ ~InUse(p) /\ Goto(p, "bound") /\ UNCHANGED <<mode, mem>>
    /\ out' = IF mode[p] = "self" THEN mem[p].cert ELSE out
    /\ UNCHANGED <<cert, key, minted, announced>>

(* Endpoint::server: the leaf is issued in memory, and the address may be  *)
(* in use.                                                                 *)
Bind(p) ==
    /\ pc[p] = "bind"
    /\ \/ InUse(p) /\ Exit(p)
       \/ /\ ~InUse(p) /\ UNCHANGED <<mode, mem>>
          /\ Goto(p, IF mode[p] = "self" THEN "cutOut" ELSE "bound")
    /\ UNCHANGED <<fileVars, minted, announced>>

(* fs::write of --cert-out, once the endpoint listens.                     *)
WriteOut(p) ==
    /\ \/ pc[p] = "cutOut" /\ out' = Torn /\ Goto(p, "putOut")
       \/ pc[p] = "putOut" /\ out' = mem[p].cert /\ Goto(p, "bound")
    /\ UNCHANGED <<cert, key, mode, mem, minted, announced>>

(* Engine::new: from here the process is in its accept loop.               *)
EngineReady(p) ==
    /\ pc[p] = "bound"
    /\ Goto(p, "up")
    /\ UNCHANGED <<fileVars, mode, mem, minted, announced>>

(* The process ends: it is killed, or a step fails and `?` leaves main.    *)
Die(p) ==
    /\ pc[p] # "off"
    /\ Exit(p)
    /\ UNCHANGED <<fileVars, minted, announced>>

(* With a key it cannot parse no server starts, until somebody removes the *)
(* files.                                                                  *)
CleanUp ==
    /\ key = Torn
    /\ \A p \in Procs : UsesCa(p) => pc[p] \notin AtFiles
    /\ cert' = Absent /\ key' = Absent
    /\ UNCHANGED <<out, pc, mode, mem, minted, announced>>

StartUp(p) == Probe(p) \/ LoadCert(p) \/ LoadKey(p) \/ Generate(p)
              \/ SaveCert(p) \/ SaveKey(p) \/ Bind(p) \/ WriteOut(p)
              \/ EngineReady(p)
-----------------------------------------------------------------------------
(* Properties.                                                             *)

KeyTypeOK ==
    /\ cert \in Contents /\ key \in Contents /\ out \in Contents
    /\ pc \in [Procs -> AtFiles \cup Listening \cup {"off", "bind"}]
    /\ mode \in [Procs -> {"none", "ca", "self", "iroh", "init"}]
    /\ mem \in [Procs -> [cert : Contents, key : Contents]]
    /\ minted \in 0..MaxKeys /\ announced \in SUBSET Versions
    /\ \A p \in Procs : HoldsPort(p) => mem[p].key \in Versions

(* The CA certificate is stable (src/README.md): whoever took one that was *)
(* announced is served by every later server, since each signs with the    *)
(* key that belongs to it, whatever starts were cut short before, and      *)
(* sends no other certificate along.                                       *)
AnnouncedStays ==
    \A p \in Procs, v \in announced :
        mode[p] = "ca" /\ pc[p] \in Listening => mem[p] = [cert |-> v, key |-> v]

(* A self-signed server in its accept loop is the one whose certificate    *)
(* clients find in --cert-out, although a second one may have been started *)
(* at any time.                                                            *)
OutIsListener ==
    \A p \in Procs :
        mode[p] = "self" /\ pc[p] \in {"bound", "up"} => out = mem[p].cert
=============================================================================
