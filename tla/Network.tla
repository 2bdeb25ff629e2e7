------------------------------- MODULE Network -------------------------------
(***************************************************************************)
(* How clients reach partitions (hsm/connections.py and the client part of *)
(* hsm/appliance.py): the client register with its assignments, NTLS links *)
(* under the server certificate, STC identities and STC links, and the     *)
(* conversion of an NTLS link into an STC link.  Each document is saved on *)
(* its own; a shell that is stopped between two saves of a command leaves  *)
(* the earlier ones behind.                                                *)
(***************************************************************************)
EXTENDS LunaShell

CONSTANTS
  Clients,   \* client names; also the names of client identities
  Slots,     \* slots that hold a partition; also names of partition identities
  MaxId,     \* bound: identities and STC links ever made
  MaxCert,   \* bound: certificates ever made
  Stops      \* may a shell be stopped between two saves?

ASSUME NetworkAssumption == {MaxId, MaxCert} \subseteq Nat /\ Stops \in BOOLEAN

VARIABLES
  clients,   \* the client register: name -> slots assigned to it, or Nobody
  db,        \* the documents of links, identities and the certificate
  torn,      \* what a stopped command left half done (history)
  stale      \* links up when a shell was stopped after a new certificate (history)

netVars == <<clients, db, torn, stale>>
vars == <<shellVars, netVars>>

LinkStates == {"assigned", "registered", "connected", "disconnected", "broken"}

\* since: the certificate a connected link was connected under (history).
NtlsLink == [client : Clients, slot : Slots, state : LinkStates, since : Nat]

Kinds == {"client", "partition"}

Identity == [id : Nat, name : Clients \cup Slots, kind : Kinds]

\* client and partition: the names the link was made for (history).
StcLink == [id : Nat, cid : Nat, pid : Nat, slot : Slots, state : LinkStates,
            client : Clients, partition : Slots]

Documents == [ntls : SUBSET NtlsLink, ids : SUBSET Identity, nextId : Nat,
              stc : SUBSET StcLink, nextLink : Nat, cert : Nat]

NetInit ==
  /\ clients = [c \in Clients |-> Nobody]
  /\ db = [ntls |-> {}, ids |-> {}, nextId |-> 1, stc |-> {}, nextLink |-> 1, cert |-> 1]
  /\ torn = {}
  /\ stale = {}

NetTypeOK ==
  /\ clients \in [Clients -> (SUBSET Slots) \cup {Nobody}]
  /\ db \in Documents
  /\ torn \subseteq {"counter"}
  /\ stale \subseteq NtlsLink

Operators == {"admin", "operator"}

(***************************************************************************)
(* Saving: the whole command, or what it had saved when it was stopped.    *)
(***************************************************************************)
\* A list was saved and the counter its newest number came from was not.
Behind(d) ==
  \/ \E i \in d.ids : i.id >= d.nextId
  \/ \E l \in d.stc : l.id >= d.nextLink

InUse(d) == {n \in d.ntls : n.state = "connected"}

\* A new certificate breaks every link in use, unless the shell is stopped
\* before it saves the links: the ones in use stay as they are.
Commit(t, final, partial) ==
  /\ UNCHANGED <<account, bound, stcConfig, clients>>
  /\ \/ /\ db' = final
        /\ stale' = IF final.cert = db.cert THEN stale ELSE {}
        /\ UNCHANGED <<me, torn>>
     \/ /\ Stops
        /\ db' \in partial
        /\ me' = [me EXCEPT ![t] = Nobody]
        /\ torn' = torn \cup (IF Behind(db') THEN {"counter"} ELSE {})
        /\ stale' = stale \cup (IF db'.cert # db.cert /\ db'.ntls = db.ntls THEN InUse(db) ELSE {})

Save(t, final) == Commit(t, final, {}) /\ UNCHANGED service

(***************************************************************************)
(* The client register                                                     *)
(***************************************************************************)
RegisterClient(t, c) ==
  /\ CheckRole(t, Operators)
  /\ clients[c] = Nobody
  /\ clients' = [clients EXCEPT ![c] = {}]
  /\ UNCHANGED <<shellVars, db, torn, stale>>

DeleteClient(t, c) ==
  /\ CheckRole(t, Operators)
  /\ clients[c] # Nobody
  /\ clients' = [clients EXCEPT ![c] = Nobody]
  /\ UNCHANGED <<shellVars, db, torn, stale>>

AssignPartition(t, c, s) ==
  /\ CheckRole(t, Operators)
  /\ clients[c] # Nobody
  /\ clients' = [clients EXCEPT ![c] = @ \cup {s}]
  /\ UNCHANGED <<shellVars, db, torn, stale>>

RevokePartition(t, c, s) ==
  /\ CheckRole(t, Operators)
  /\ clients[c] # Nobody
  /\ clients' = [clients EXCEPT ![c] = @ \ {s}]
  /\ UNCHANGED <<shellVars, db, torn, stale>>

(***************************************************************************)
(* NTLS links                                                              *)
(***************************************************************************)
NtlsOf(d, c, s) == {n \in d.ntls : n.client = c /\ n.slot = s}

Others(d, c, s) == d.ntls \ NtlsOf(d, c, s)

CreateNtls(t, c, s) ==
  /\ CheckRole(t, Operators)
  /\ NtlsOf(db, c, s) = {}
  /\ Save(t, [db EXCEPT !.ntls = @ \cup {[client |-> c, slot |-> s,
                                          state |-> "assigned", since |-> 0]}])

DeleteNtls(t, c, s) ==
  /\ CheckRole(t, Operators)
  /\ NtlsOf(db, c, s) # {}
  /\ Save(t, [db EXCEPT !.ntls = Others(db, c, s)])

\* Whatever state the link is in, broken included.
ConnectNtls(t, c, s) ==
  /\ CheckRole(t, Operators)
  /\ \E n \in NtlsOf(db, c, s) :
       /\ n.state # "connected"
       /\ Save(t, [db EXCEPT !.ntls = Others(db, c, s)
            \cup {[n EXCEPT !.state = "connected", !.since = db.cert]}])

DisconnectNtls(t, c, s) ==
  /\ CheckRole(t, Operators)
  /\ \E n \in NtlsOf(db, c, s) :
       Save(t, [db EXCEPT !.ntls = Others(db, c, s)
            \cup {[n EXCEPT !.state = "disconnected", !.since = 0]}])

RestoreNtls(t, c, s) ==
  /\ CheckRole(t, Operators)
  /\ \E n \in NtlsOf(db, c, s) :
       Save(t, [db EXCEPT !.ntls = Others(db, c, s)
            \cup {[n EXCEPT !.state = "assigned", !.since = 0]}])

\* Only the links not yet in use are broken.
MutantBroken(n) == IF n.state = "assigned" THEN [n EXCEPT !.state = "broken"] ELSE n

Broken(n) ==
  IF n.state \in {"connected", "assigned"} THEN [n EXCEPT !.state = "broken", !.since = 0] ELSE n

\* sysconf regenCert and ntls certificate regenerate: the certificate, the
\* links it breaks, the service started again; three saves.
RegenerateCert(t) ==
  LET renewed == [db EXCEPT !.cert = @ + 1]
      broken  == [renewed EXCEPT !.ntls = {Broken(n) : n \in @}] IN
  /\ CheckRole(t, {"admin"})
  /\ db.cert < MaxCert
  /\ Commit(t, broken, {renewed, broken})
  /\ service' = IF me' = me THEN [service EXCEPT !["ntls"] = TRUE] ELSE service

(***************************************************************************)
(* STC identities                                                          *)
(***************************************************************************)
Known(d, kind, name) == \E i \in d.ids : i.kind = kind /\ i.name = name

IdOf(d, kind, name) == (CHOOSE i \in d.ids : i.kind = kind /\ i.name = name).id

\* The list is saved first, the counter after it.
ListIdentity(d, kind, name) ==
  [d EXCEPT !.ids = @ \cup {[id |-> d.nextId, name |-> name, kind |-> kind]}]

MakeIdentity(d, kind, name) ==
  [ListIdentity(d, kind, name) EXCEPT !.nextId = d.nextId + 1]

CreateIdentity(t, kind, name) ==
  /\ CheckRole(t, Operators)
  /\ ~Known(db, kind, name)
  /\ db.nextId < MaxId
  /\ Commit(t, MakeIdentity(db, kind, name), {ListIdentity(db, kind, name)})
  /\ UNCHANGED service

\* The number is given back.
MutantDeleteIdentity(t, kind, name) ==
  /\ CheckRole(t, Operators)
  /\ Known(db, kind, name)
  /\ \A l \in db.stc : l.state = "connected" => IdOf(db, kind, name) \notin {l.cid, l.pid}
  /\ Save(t, [db EXCEPT !.ids = {i \in @ : ~(i.kind = kind /\ i.name = name)},
                        !.nextId = IdOf(db, kind, name)])

\* Refused while a link that uses the identity is connected; a link that is
\* not connected keeps its number.
DeleteIdentity(t, kind, name) ==
  /\ CheckRole(t, Operators)
  /\ Known(db, kind, name)
  /\ \A l \in db.stc : l.state = "connected" => IdOf(db, kind, name) \notin {l.cid, l.pid}
  /\ Save(t, [db EXCEPT !.ids = {i \in @ : ~(i.kind = kind /\ i.name = name)}])

(***************************************************************************)
(* STC links                                                               *)
(***************************************************************************)
\* Only a link in use counts.
MutantLinked(d, c, p) ==
  \E l \in d.stc :
    l.state = "connected" /\ l.cid = IdOf(d, "client", c) /\ l.pid = IdOf(d, "partition", p)

Linked(d, c, p) ==
  \E l \in d.stc : l.cid = IdOf(d, "client", c) /\ l.pid = IdOf(d, "partition", p)

ListLink(d, c, p, s) ==
  [d EXCEPT !.stc = @ \cup {[id |-> d.nextLink, cid |-> IdOf(d, "client", c),
                             pid |-> IdOf(d, "partition", p), slot |-> s,
                             state |-> "registered", client |-> c, partition |-> p]}]

MakeLink(d, c, p, s) == [ListLink(d, c, p, s) EXCEPT !.nextLink = d.nextLink + 1]

CreateStc(t, c, p, s) ==
  /\ CheckRole(t, Operators)
  /\ Known(db, "client", c) /\ Known(db, "partition", p)
  /\ ~Linked(db, c, p)
  /\ db.nextLink < MaxId
  /\ Commit(t, MakeLink(db, c, p, s), {ListLink(db, c, p, s)})
  /\ UNCHANGED service

DeleteStc(t, l) ==
  /\ CheckRole(t, Operators)
  /\ Save(t, [db EXCEPT !.stc = {k \in @ : k.id # l.id}])

\* Of two links with one number (a stopped command can leave them) the code
\* takes the older; here it is either.
SetLinkState(t, l, state) ==
  /\ CheckRole(t, Operators)
  /\ Save(t, [db EXCEPT !.stc = (@ \ {l}) \cup {[l EXCEPT !.state = state]}])

\* Neither the identities nor the configuration of STC are looked at.
ConnectStc(t, l) == l.state # "connected" /\ SetLinkState(t, l, "connected")

DisconnectStc(t, l) == SetLinkState(t, l, "disconnected")

RestoreStc(t, l) == SetLinkState(t, l, "registered")

(***************************************************************************)
(* The conversion of an NTLS link: identities where they are missing, the  *)
(* STC link, and only then the NTLS link goes; five documents in a row.    *)
(***************************************************************************)
WithIdentity(d, kind, name) ==
  IF Known(d, kind, name) THEN d ELSE MakeIdentity(d, kind, name)

HalfIdentity(d, kind, name) ==
  IF Known(d, kind, name) THEN {} ELSE {ListIdentity(d, kind, name)}

\* With a link between the two identities already there the conversion fails
\* and the NTLS link stays.
Converted(d, c, s) ==
  IF Linked(d, c, s) THEN d ELSE [MakeLink(d, c, s, s) EXCEPT !.ntls = Others(d, c, s)]

\* The NTLS link goes first.
MutantHalfConverted(d, c, s) ==
  IF Linked(d, c, s) THEN {} ELSE {[d EXCEPT !.ntls = Others(d, c, s)]}

HalfConverted(d, c, s) ==
  IF Linked(d, c, s) THEN {} ELSE {ListLink(d, c, s, s), MakeLink(d, c, s, s)}

Convert(t, c, s) ==
  LET one == WithIdentity(db, "client", c)
      two == WithIdentity(one, "partition", s) IN
  /\ CheckRole(t, {"admin"})
  /\ \E n \in NtlsOf(db, c, s) : n.state # "connected"
  /\ db.nextId + 1 < MaxId /\ db.nextLink < MaxId
  /\ Commit(t, Converted(two, c, s),
            {one, two} \cup HalfIdentity(db, "client", c)
                       \cup HalfIdentity(one, "partition", s) \cup HalfConverted(two, c, s))
  /\ UNCHANGED service

(***************************************************************************)
(* The shell                                                               *)
(***************************************************************************)
Command(t) == Logout(t) \/ \E n \in Names, p \in Passwords : Login(t, n, p)

UserCommand(t) ==
  \E n \in Names :
    \/ DeleteUser(t, n) \/ EnableUser(t, n) \/ DisableUser(t, n)
    \/ \E p \in Passwords : SetUserPassword(t, n, p)
    \/ \E r \in Roles, p \in Passwords \cup {NoPassword} : AddUser(t, n, r, p)

MyCommand(t) == \E old, new \in Passwords : SetMyPassword(t, old, new)

ServiceCommand(t) == \E s \in Services : StartService(t, s) \/ StopService(t, s)

NtlsCommand(t) ==
  \/ \E i \in Interfaces \cup {"all"} : BindInterface(t, i)
  \/ \E i \in Interfaces : UnbindInterface(t, i)

StcCommand(t) ==
  \/ EnableStc(t) \/ DisableStc(t)
  \/ \E c \in Ciphers : SetStcCipher(t, c)
  \/ \E on \in BOOLEAN : SetStcHmac(t, on)
  \/ \E n \in Numbers : SetStcRekeyThreshold(t, n) \/ SetStcActivationTimeout(t, n)

AccountStep(t) == Command(t) \/ UserCommand(t) \/ MyCommand(t)

SettingStep(t) == ServiceCommand(t) \/ NtlsCommand(t) \/ StcCommand(t)

ClientCommand(t) ==
  \E c \in Clients :
    \/ RegisterClient(t, c) \/ DeleteClient(t, c)
    \/ \E s \in Slots : AssignPartition(t, c, s) \/ RevokePartition(t, c, s)

NtlsConnection(t) ==
  \E c \in Clients, s \in Slots :
    \/ CreateNtls(t, c, s) \/ DeleteNtls(t, c, s) \/ ConnectNtls(t, c, s)
    \/ DisconnectNtls(t, c, s) \/ RestoreNtls(t, c, s) \/ Convert(t, c, s)

StcIdentity(t) ==
  \/ \E c \in Clients : CreateIdentity(t, "client", c) \/ DeleteIdentity(t, "client", c)
  \/ \E s \in Slots : CreateIdentity(t, "partition", s) \/ DeleteIdentity(t, "partition", s)

StcConnection(t) ==
  \/ \E c \in Clients, p, s \in Slots : CreateStc(t, c, p, s)
  \/ \E l \in db.stc :
       DeleteStc(t, l) \/ ConnectStc(t, l) \/ DisconnectStc(t, l) \/ RestoreStc(t, l)

LinkStep(t) == RegenerateCert(t) \/ NtlsConnection(t) \/ StcIdentity(t) \/ StcConnection(t)

Init == ShellInit /\ NetInit

Next ==
  \E t \in Terminals :
    \/ (AccountStep(t) \/ SettingStep(t)) /\ UNCHANGED netVars
    \/ ClientCommand(t) \/ LinkStep(t)

Spec == Init /\ [][Next]_vars

(***************************************************************************)
(* Properties                                                              *)
(***************************************************************************)
TypeOK == ShellTypeOK /\ NetTypeOK

\* However the links were created, converted, deleted and restored: one NTLS
\* link for a client and a slot, one STC link for two identities, and an STC
\* number names one link (unless a stopped command lost the counter).
OneLinkPerPair ==
  /\ \A m, n \in db.ntls : m.client = n.client /\ m.slot = n.slot => m = n
  /\ \A k, l \in db.stc : k.cid = l.cid /\ k.pid = l.pid => k = l
  /\ "counter" \notin torn => \A k, l \in db.stc : k.id = l.id => k = l

\* An STC link outlives its identities, whose deletion only spares connected
\* links.  The numbers it keeps never come to mean another client or
\* partition, whatever is deleted and created again.
IdentityMeansOne ==
  "counter" \notin torn =>
    \A l \in db.stc, i \in db.ids :
      /\ i.id = l.cid => i.kind = "client" /\ i.name = l.client
      /\ i.id = l.pid => i.kind = "partition" /\ i.name = l.partition

\* A link that is up was connected under the certificate the server has now.
\* A shell stopped between a new certificate and the links exempts the links
\* that were up at that moment and no other: not one that is disconnected and
\* connected again, none after the next certificate that is completed.
ServedUnderCurrentCert ==
  \A n \in InUse(db) : n.since = db.cert \/ n \in stale

\* A client that is being converted keeps a link to its partition wherever the
\* command is stopped: the NTLS link goes after the STC link is there.
ConversionKeepsAccess ==
  [][\A c \in Clients, s \in Slots, t \in Terminals : Convert(t, c, s) =>
       \/ NtlsOf(db', c, s) # {}
       \/ \E l \in db'.stc : l.client = c /\ l.slot = s]_vars
=============================================================================
