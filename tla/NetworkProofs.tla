---------------------------- MODULE NetworkProofs ----------------------------
(***************************************************************************)
(* The invariants of Network for every set of terminals, accounts,         *)
(* clients and slots, every bound, and shells stopped anywhere.  A step    *)
(* replaces the documents as a whole or leaves one of a few half-saved     *)
(* ones; the lemmas say what each change of the documents preserves        *)
(* (Keeps) and what a half-saved change may lose (Half).                   *)
(***************************************************************************)
EXTENDS Network, TLAPS

\* One link for a pair, in both kinds of links.
Pairs(d) ==
  /\ \A m, n \in d.ntls : m.client = n.client /\ m.slot = n.slot => m = n
  /\ \A k, l \in d.stc : k.cid = l.cid /\ k.pid = l.pid => k = l

\* What the numbers mean as long as no counter is behind.
Sound(d) ==
  /\ \A i \in d.ids : i.id < d.nextId
  /\ \A l \in d.stc : l.id < d.nextLink /\ l.cid < d.nextId /\ l.pid < d.nextId
  /\ \A i, j \in d.ids : i.id = j.id => i = j
  /\ \A k, l \in d.stc : k.id = l.id => k = l
  /\ \A l \in d.stc, i \in d.ids :
       /\ i.id = l.cid => i.kind = "client" /\ i.name = l.client
       /\ i.id = l.pid => i.kind = "partition" /\ i.name = l.partition

\* Every link that is up is of the current certificate, but for those in X.
Current(d, X) == \A n \in d.ntls : n.state = "connected" => n.since = d.cert \/ n \in X

Keeps(d, e) ==
  /\ e \in Documents
  /\ Pairs(d) => Pairs(e)
  /\ Sound(d) => Sound(e)
  /\ \A X : Current(d, X) => Current(e, X)
  /\ e.cert # d.cert => Current(e, {})

Half(d, e) ==
  /\ e \in Documents
  /\ Pairs(d) => Pairs(e)
  /\ Sound(d) => Sound(e) \/ Behind(e)
  /\ \A X : Current(d, X) => Current(e, X) \/ (e.cert # d.cert /\ e.ntls = d.ntls)

\* The documents, whatever was left half done.
Held ==
  /\ db \in Documents
  /\ torn \subseteq {"counter"}
  /\ stale \subseteq NtlsLink
  /\ Pairs(db)
  /\ "counter" \notin torn => Sound(db)
  /\ Current(db, stale)

ClientsOK == clients \in [Clients -> (SUBSET Slots) \cup {Nobody}]

NInv == ShellTypeOK /\ ClientsOK /\ Held

-----------------------------------------------------------------------------
(* Changes of the documents.                                               *)

LEMMA KeepsIsHalf ==
  ASSUME NEW d, NEW e, Keeps(d, e)
  PROVE  Half(d, e)
BY DEF Keeps, Half

\* One document saved: the others are as they were.
LEMMA Saved ==
  ASSUME NEW d \in Documents
  PROVE  /\ \A X \in SUBSET NtlsLink : LET e == [d EXCEPT !.ntls = X] IN
              /\ e \in Documents
              /\ e.ntls = X /\ e.ids = d.ids /\ e.nextId = d.nextId
              /\ e.stc = d.stc /\ e.nextLink = d.nextLink /\ e.cert = d.cert
         /\ \A X \in SUBSET Identity : LET e == [d EXCEPT !.ids = X] IN
              /\ e \in Documents
              /\ e.ntls = d.ntls /\ e.ids = X /\ e.nextId = d.nextId
              /\ e.stc = d.stc /\ e.nextLink = d.nextLink /\ e.cert = d.cert
         /\ \A x \in Nat : LET e == [d EXCEPT !.nextId = x] IN
              /\ e \in Documents
              /\ e.ntls = d.ntls /\ e.ids = d.ids /\ e.nextId = x
              /\ e.stc = d.stc /\ e.nextLink = d.nextLink /\ e.cert = d.cert
         /\ \A X \in SUBSET StcLink : LET e == [d EXCEPT !.stc = X] IN
              /\ e \in Documents
              /\ e.ntls = d.ntls /\ e.ids = d.ids /\ e.nextId = d.nextId
              /\ e.stc = X /\ e.nextLink = d.nextLink /\ e.cert = d.cert
         /\ \A x \in Nat : LET e == [d EXCEPT !.nextLink = x] IN
              /\ e \in Documents
              /\ e.ntls = d.ntls /\ e.ids = d.ids /\ e.nextId = d.nextId
              /\ e.stc = d.stc /\ e.nextLink = x /\ e.cert = d.cert
         /\ \A x \in Nat : LET e == [d EXCEPT !.cert = x] IN
              /\ e \in Documents
              /\ e.ntls = d.ntls /\ e.ids = d.ids /\ e.nextId = d.nextId
              /\ e.stc = d.stc /\ e.nextLink = d.nextLink /\ e.cert = x
  BY DEF Documents

\* An identity, up to the list and with the counter.
LEMMA IdentityMade ==
  ASSUME NEW d \in Documents, NEW kind \in Kinds, NEW name \in Clients \cup Slots
  PROVE  /\ Half(d, ListIdentity(d, kind, name))
         /\ Keeps(d, MakeIdentity(d, kind, name))
         /\ MakeIdentity(d, kind, name).cert = d.cert
         /\ MakeIdentity(d, kind, name).ntls = d.ntls
         /\ d.ids \subseteq MakeIdentity(d, kind, name).ids
         /\ Known(MakeIdentity(d, kind, name), kind, name)
<1> DEFINE new == [id |-> d.nextId, name |-> name, kind |-> kind]
           L == ListIdentity(d, kind, name)
           M == MakeIdentity(d, kind, name)
<1>1. /\ d.nextId \in Nat
      /\ new \in Identity
      /\ d.ids \cup {new} \in SUBSET Identity
  BY DEF Identity, Documents
<1>2. /\ L \in Documents
      /\ L.ntls = d.ntls /\ L.ids = d.ids \cup {new} /\ L.nextId = d.nextId
      /\ L.stc = d.stc /\ L.nextLink = d.nextLink /\ L.cert = d.cert
  BY ONLY <1>1, Saved, d \in Documents DEF ListIdentity
<1>3. /\ M \in Documents
      /\ M.ntls = d.ntls /\ M.ids = d.ids \cup {new} /\ M.nextId = d.nextId + 1
      /\ M.stc = d.stc /\ M.nextLink = d.nextLink /\ M.cert = d.cert
  <2>1. d.nextId + 1 \in Nat
    BY <1>1
  <2> QED BY ONLY <1>2, <2>1, Saved DEF MakeIdentity
<1>4. new.id = d.nextId /\ new.kind = kind /\ new.name = name
  OBVIOUS
<1> HIDE DEF L, M, new
<1>5. Half(d, L)
  <2>1. Behind(L)
    BY <1>1, <1>2, <1>4 DEF Behind, Identity
  <2> QED BY <2>1, <1>2 DEF Half, Pairs, Current
<1>6. Sound(d) => Sound(M)
  <2> SUFFICES ASSUME Sound(d) PROVE Sound(M)
    OBVIOUS
  <2>1. /\ \A i \in d.ids : i.id \in Nat /\ i.id < d.nextId
        /\ \A l \in d.stc : l.cid \in Nat /\ l.pid \in Nat /\ l.cid < d.nextId /\ l.pid < d.nextId
    BY DEF Sound, Documents, Identity, StcLink
  <2>2. \A i \in d.ids : i.id # new.id
    BY <2>1, <1>1, <1>4
  <2>3. \A l \in d.stc : l.cid # new.id /\ l.pid # new.id
    BY <2>1, <1>1, <1>4
  <2>4. /\ \A i \in M.ids : i.id < M.nextId
        /\ \A l \in M.stc : l.cid < M.nextId /\ l.pid < M.nextId
    BY <2>1, <1>1, <1>3, <1>4
  <2>5. \A i, j \in M.ids : i.id = j.id => i = j
    BY <2>2, <1>3 DEF Sound
  <2> QED BY <2>3, <2>4, <2>5, <1>3 DEF Sound
<1>7. d.ids \subseteq M.ids /\ Known(M, kind, name)
  BY <1>3, <1>4 DEF Known
<1>8. Keeps(d, M)
  BY <1>3, <1>6 DEF Keeps, Pairs, Current
<1> QED BY <1>3, <1>5, <1>7, <1>8 DEF L, M

LEMMA KeepsChain ==
  ASSUME NEW d, NEW e, NEW f, Keeps(d, e), e.cert = d.cert, e.ntls = d.ntls
  PROVE  /\ Keeps(e, f) => Keeps(d, f)
         /\ Half(e, f) => Half(d, f)
BY DEF Keeps, Half

\* Identities and STC links deleted.
LEMMA Deleted ==
  ASSUME NEW d \in Documents
  PROVE  /\ \A X \in SUBSET d.ids : Keeps(d, [d EXCEPT !.ids = X])
         /\ \A X \in SUBSET d.stc : Keeps(d, [d EXCEPT !.stc = X])
<1>1. ASSUME NEW X \in SUBSET d.ids PROVE Keeps(d, [d EXCEPT !.ids = X])
  <2> DEFINE e == [d EXCEPT !.ids = X]
  <2>1. X \in SUBSET Identity
    BY DEF Documents
  <2>2. /\ e \in Documents
        /\ e.ntls = d.ntls /\ e.ids = X /\ e.nextId = d.nextId
        /\ e.stc = d.stc /\ e.nextLink = d.nextLink /\ e.cert = d.cert
    BY ONLY <2>1, Saved, d \in Documents
  <2> HIDE DEF e
  <2>3. Keeps(d, e)
    BY <2>2 DEF Keeps, Pairs, Sound, Current
  <2> QED BY <2>3 DEF e
<1>2. ASSUME NEW X \in SUBSET d.stc PROVE Keeps(d, [d EXCEPT !.stc = X])
  <2> DEFINE e == [d EXCEPT !.stc = X]
  <2>1. X \in SUBSET StcLink
    BY DEF Documents
  <2>2. /\ e \in Documents
        /\ e.ntls = d.ntls /\ e.ids = d.ids /\ e.nextId = d.nextId
        /\ e.stc = X /\ e.nextLink = d.nextLink /\ e.cert = d.cert
    BY ONLY <2>1, Saved, d \in Documents
  <2> HIDE DEF e
  <2>3. Keeps(d, e)
    BY <2>2 DEF Keeps, Pairs, Sound, Current
  <2> QED BY <2>3 DEF e
<1> QED BY <1>1, <1>2

\* The NTLS link of a client and a slot replaced, made or deleted.
LEMMA NtlsReplaced ==
  ASSUME NEW d \in Documents, NEW c, NEW s, NEW X \in SUBSET NtlsLink,
         \A m, n \in X : m = n,
         \A n \in X : /\ n.client = c /\ n.slot = s
                      /\ n.state = "connected" => n.since = d.cert
  PROVE  Keeps(d, [d EXCEPT !.ntls = Others(d, c, s) \cup X])
<1> DEFINE Y == Others(d, c, s) \cup X
           e == [d EXCEPT !.ntls = Y]
<1>1. Y \in SUBSET NtlsLink
  BY DEF Documents, Others
<1> HIDE DEF Y
<1>2. /\ e \in Documents
      /\ e.ntls = Y /\ e.ids = d.ids /\ e.nextId = d.nextId
      /\ e.stc = d.stc /\ e.nextLink = d.nextLink /\ e.cert = d.cert
  BY ONLY <1>1, Saved, d \in Documents
<1> HIDE DEF e
<1>3. \A n \in Y : \/ n \in d.ntls /\ ~(n.client = c /\ n.slot = s)
                   \/ n \in X
  BY DEF Y, Others, NtlsOf
<1>4. Pairs(d) => Pairs(e)
  BY <1>2, <1>3 DEF Pairs
<1>5. \A Z : Current(d, Z) => Current(e, Z)
  BY <1>2, <1>3 DEF Current
<1>6. Sound(d) => Sound(e)
  BY <1>2 DEF Sound
<1>7. Keeps(d, e)
  BY <1>2, <1>4, <1>5, <1>6 DEF Keeps
<1> QED BY <1>7 DEF e, Y

\* An STC link in another state.
LEMMA LinkStateSet ==
  ASSUME NEW d \in Documents, NEW l \in d.stc, NEW state \in LinkStates
  PROVE  Keeps(d, [d EXCEPT !.stc = (d.stc \ {l}) \cup {[l EXCEPT !.state = state]}])
<1> DEFINE k == [l EXCEPT !.state = state]
           X == (d.stc \ {l}) \cup {k}
           e == [d EXCEPT !.stc = X]
<1>1. l \in StcLink
  BY DEF Documents
<1>2. /\ k \in StcLink
      /\ k.id = l.id /\ k.cid = l.cid /\ k.pid = l.pid
      /\ k.client = l.client /\ k.partition = l.partition
  BY <1>1 DEF StcLink
<1> HIDE DEF k
<1>3. X \in SUBSET StcLink
  BY <1>2 DEF Documents
<1>4. \A j \in X : (j \in d.stc /\ j # l) \/ j = k
  OBVIOUS
<1> HIDE DEF X
<1>5. /\ e \in Documents
      /\ e.ntls = d.ntls /\ e.ids = d.ids /\ e.nextId = d.nextId
      /\ e.stc = X /\ e.nextLink = d.nextLink /\ e.cert = d.cert
  BY ONLY <1>3, Saved, d \in Documents
<1> HIDE DEF e
<1>6. Pairs(d) => Pairs(e)
  BY <1>2, <1>4, <1>5 DEF Pairs
<1>7. Sound(d) => Sound(e)
  BY <1>2, <1>4, <1>5 DEF Sound
<1>8. Keeps(d, e)
  BY <1>5, <1>6, <1>7 DEF Keeps, Current
<1> QED BY <1>8 DEF e, X, k

\* An STC link, up to the list and with the counter.
LEMMA LinkMade ==
  ASSUME NEW d \in Documents, NEW c \in Clients, NEW p \in Slots, NEW s \in Slots,
         Known(d, "client", c), Known(d, "partition", p), ~Linked(d, c, p)
  PROVE  /\ Half(d, ListLink(d, c, p, s))
         /\ Keeps(d, MakeLink(d, c, p, s))
         /\ MakeLink(d, c, p, s).cert = d.cert
         /\ MakeLink(d, c, p, s).ntls = d.ntls
<1> DEFINE a == IdOf(d, "client", c)
           b == IdOf(d, "partition", p)
           new == [id |-> d.nextLink, cid |-> a, pid |-> b, slot |-> s,
                   state |-> "registered", client |-> c, partition |-> p]
           L == ListLink(d, c, p, s)
           M == MakeLink(d, c, p, s)
<1>1. PICK i \in d.ids : i.kind = "client" /\ i.name = c /\ i.id = a
  BY DEF Known, IdOf
<1>2. PICK j \in d.ids : j.kind = "partition" /\ j.name = p /\ j.id = b
  BY DEF Known, IdOf
<1>3. a \in Nat /\ b \in Nat /\ d.nextId \in Nat /\ d.nextLink \in Nat
  BY <1>1, <1>2 DEF Documents, Identity
<1>4. \A l \in d.stc : ~(l.cid = a /\ l.pid = b)
  BY DEF Linked
<1> HIDE DEF a, b
<1>5. /\ new \in StcLink
      /\ d.stc \cup {new} \in SUBSET StcLink
  BY <1>3 DEF StcLink, Documents, LinkStates
<1>6. /\ L \in Documents
      /\ L.ntls = d.ntls /\ L.ids = d.ids /\ L.nextId = d.nextId
      /\ L.stc = d.stc \cup {new} /\ L.nextLink = d.nextLink /\ L.cert = d.cert
  BY ONLY <1>5, Saved, d \in Documents DEF ListLink, a, b
<1>7. /\ M \in Documents
      /\ M.ntls = d.ntls /\ M.ids = d.ids /\ M.nextId = d.nextId
      /\ M.stc = d.stc \cup {new} /\ M.nextLink = d.nextLink + 1 /\ M.cert = d.cert
  <2>1. d.nextLink + 1 \in Nat
    BY <1>3
  <2> QED BY ONLY <1>6, <2>1, Saved DEF MakeLink
<1>8. new.id = d.nextLink /\ new.cid = a /\ new.pid = b /\ new.client = c /\ new.partition = p
  OBVIOUS
<1> HIDE DEF L, M, new
<1>9. \A k, l \in d.stc \cup {new} : Pairs(d) /\ k.cid = l.cid /\ k.pid = l.pid => k = l
  BY <1>4, <1>8 DEF Pairs
<1>10. Half(d, L)
  <2>1. Behind(L)
    BY <1>3, <1>6, <1>8 DEF Behind
  <2> QED BY <2>1, <1>6, <1>9 DEF Half, Pairs, Current
<1>11. Sound(d) => Sound(M)
  <2> SUFFICES ASSUME Sound(d) PROVE Sound(M)
    OBVIOUS
  <2>1. a < d.nextId /\ b < d.nextId
    BY <1>1, <1>2 DEF Sound
  <2>2. \A l \in d.stc : l.id \in Nat /\ l.id < d.nextLink
    BY DEF Sound, Documents, StcLink
  <2>3. \A l \in M.stc : l.id < M.nextLink /\ l.cid < M.nextId /\ l.pid < M.nextId
    <3>1. \A l \in d.stc : l.id < M.nextLink /\ l.cid < M.nextId /\ l.pid < M.nextId
      BY <2>2, <1>3, <1>7 DEF Sound
    <3>2. new.id < M.nextLink /\ new.cid < M.nextId /\ new.pid < M.nextId
      BY <2>1, <1>3, <1>7, <1>8
    <3> QED BY <3>1, <3>2, <1>7
  <2>4. \A k, l \in M.stc : k.id = l.id => k = l
    <3>1. \A l \in d.stc : l.id # new.id
      BY <2>2, <1>3, <1>8
    <3> QED BY <3>1, <1>7 DEF Sound
  <2>5. \A h \in d.ids : /\ h.id = a => h = i
                         /\ h.id = b => h = j
    BY <1>1, <1>2 DEF Sound
  <2>6. \A h \in d.ids : /\ h.id = new.cid => h.kind = "client" /\ h.name = new.client
                         /\ h.id = new.pid => h.kind = "partition" /\ h.name = new.partition
    BY <2>5, <1>1, <1>2, <1>8
  <2> QED BY <2>3, <2>4, <2>6, <1>7 DEF Sound
<1>12. Keeps(d, M)
  BY <1>7, <1>9, <1>11 DEF Keeps, Pairs, Current
<1> QED BY <1>7, <1>10, <1>12 DEF L, M

\* All certificates renewed and the links that were up broken.
LEMMA CertificateRenewed ==
  ASSUME NEW d \in Documents
  PROVE  LET renewed == [d EXCEPT !.cert = d.cert + 1]
             broken  == [renewed EXCEPT !.ntls = {Broken(n) : n \in renewed.ntls}] IN
         Half(d, renewed) /\ Keeps(d, broken)
<1> DEFINE r == [d EXCEPT !.cert = d.cert + 1]
           X == {Broken(n) : n \in r.ntls}
           e == [r EXCEPT !.ntls = X]
<1>1. d.cert \in Nat /\ d.cert + 1 \in Nat /\ d.cert + 1 # d.cert
  BY DEF Documents
<1>2. /\ r \in Documents
      /\ r.ntls = d.ntls /\ r.ids = d.ids /\ r.nextId = d.nextId
      /\ r.stc = d.stc /\ r.nextLink = d.nextLink /\ r.cert = d.cert + 1
  BY ONLY <1>1, Saved, d \in Documents
<1> HIDE DEF r
<1>3. ASSUME NEW n \in NtlsLink
      PROVE  /\ Broken(n) \in NtlsLink
             /\ Broken(n).client = n.client /\ Broken(n).slot = n.slot
             /\ Broken(n).state # "connected"
  BY DEF Broken, NtlsLink, LinkStates
<1>4. r.ntls \subseteq NtlsLink
  BY <1>2 DEF Documents
<1>5. X \in SUBSET NtlsLink
  BY <1>3, <1>4
<1>6. /\ e \in Documents
      /\ e.ntls = X /\ e.ids = d.ids /\ e.nextId = d.nextId
      /\ e.stc = d.stc /\ e.nextLink = d.nextLink /\ e.cert = d.cert + 1
  BY ONLY <1>2, <1>5, Saved
<1>7. Pairs(d) => Pairs(e)
  <2> SUFFICES ASSUME Pairs(d), NEW m \in X, NEW n \in X, m.client = n.client, m.slot = n.slot
               PROVE  m = n
    BY <1>6 DEF Pairs
  <2>1. PICK f \in r.ntls, g \in r.ntls : m = Broken(f) /\ n = Broken(g)
    OBVIOUS
  <2>2. f.client = g.client /\ f.slot = g.slot
    BY <2>1, <1>3, <1>4
  <2> QED BY <2>1, <2>2, <1>2 DEF Pairs
<1>8. \A Z : Current(e, Z)
  BY <1>3, <1>4, <1>6 DEF Current
<1> HIDE DEF e
<1>9. Keeps(d, e)
  BY <1>6, <1>7, <1>8 DEF Keeps, Sound
<1>10. Half(d, r)
  BY <1>1, <1>2 DEF Half, Pairs, Sound
<1> QED BY <1>9, <1>10 DEF e, r

\* An identity is there afterwards; what was known stays known.
LEMMA IdentityThere ==
  ASSUME NEW d \in Documents, NEW kind \in Kinds, NEW name \in Clients \cup Slots
  PROVE  /\ Keeps(d, WithIdentity(d, kind, name))
         /\ WithIdentity(d, kind, name).cert = d.cert
         /\ WithIdentity(d, kind, name).ntls = d.ntls
         /\ Known(WithIdentity(d, kind, name), kind, name)
         /\ \A k, n : Known(d, k, n) => Known(WithIdentity(d, kind, name), k, n)
         /\ \A e \in HalfIdentity(d, kind, name) : Half(d, e)
<1>1. CASE Known(d, kind, name)
  BY <1>1 DEF WithIdentity, HalfIdentity, Keeps
<1>2. CASE ~Known(d, kind, name)
  <2>1. /\ WithIdentity(d, kind, name) = MakeIdentity(d, kind, name)
        /\ HalfIdentity(d, kind, name) = {ListIdentity(d, kind, name)}
    BY <1>2 DEF WithIdentity, HalfIdentity
  <2>2. \A k, n : Known(d, k, n) => Known(MakeIdentity(d, kind, name), k, n)
    BY IdentityMade DEF Known
  <2> QED BY <2>1, <2>2, IdentityMade
<1> QED BY <1>1, <1>2

\* The last part of a conversion: the STC link, then the NTLS link goes.
LEMMA LinkConverted ==
  ASSUME NEW d \in Documents, NEW c \in Clients, NEW s \in Slots,
         Known(d, "client", c), Known(d, "partition", s)
  PROVE  /\ Keeps(d, Converted(d, c, s))
         /\ \A e \in HalfConverted(d, c, s) : Half(d, e)
<1>1. CASE Linked(d, c, s)
  BY <1>1 DEF Converted, HalfConverted, Keeps
<1>2. CASE ~Linked(d, c, s)
  <2> DEFINE M == MakeLink(d, c, s, s)
  <2>1. /\ Half(d, ListLink(d, c, s, s)) /\ Keeps(d, M)
        /\ M.cert = d.cert /\ M.ntls = d.ntls
    BY <1>2, LinkMade
  <2> HIDE DEF M
  <2>2. M \in Documents
    BY <2>1 DEF Keeps
  <2>3. Keeps(M, [M EXCEPT !.ntls = Others(M, c, s) \cup {}])
    BY <2>2, NtlsReplaced
  <2>4. Others(M, c, s) \cup {} = Others(d, c, s)
    BY <2>1 DEF Others, NtlsOf
  <2>5. Keeps(M, Converted(d, c, s))
    BY <1>2, <2>3, <2>4 DEF Converted, M
  <2>6. Keeps(d, Converted(d, c, s))
    BY <2>1, <2>5, KeepsChain
  <2>7. Half(d, M)
    BY <2>1, KeepsIsHalf
  <2> QED BY <1>2, <2>1, <2>6, <2>7 DEF HalfConverted, M
<1> QED BY <1>1, <1>2

-----------------------------------------------------------------------------
(* Steps.                                                                  *)

LEMMA CommitHeld ==
  ASSUME Held, NEW t, NEW final, NEW partial, Commit(t, final, partial),
         Keeps(db, final), \A e \in partial : Half(db, e)
  PROVE  Held'
<1>1. CASE /\ db' = final
           /\ stale' = IF final.cert = db.cert THEN stale ELSE {}
           /\ UNCHANGED torn
  <2>1. Current(final, stale')
    BY <1>1 DEF Held, Keeps
  <2> QED BY <1>1, <2>1 DEF Held, Keeps
<1>2. CASE /\ db' \in partial
           /\ torn' = torn \cup (IF Behind(db') THEN {"counter"} ELSE {})
           /\ stale' = stale \cup (IF db'.cert # db.cert /\ db'.ntls = db.ntls
                                  THEN InUse(db) ELSE {})
  <2>1. Half(db, db')
    BY <1>2
  <2>2. /\ torn' \subseteq {"counter"}
        /\ torn \subseteq torn'
        /\ Behind(db') => "counter" \in torn'
    BY <1>2 DEF Held
  <2>3. stale' \subseteq NtlsLink
    BY <1>2 DEF Held, InUse, Documents
  <2>4. Current(db', stale')
    <3>1. CASE db'.cert # db.cert /\ db'.ntls = db.ntls
      BY <1>2, <3>1 DEF Current, InUse
    <3>2. CASE ~(db'.cert # db.cert /\ db'.ntls = db.ntls)
      <4>1. Current(db', stale)
        BY <2>1, <3>2 DEF Held, Half
      <4> QED BY <1>2, <3>2, <4>1
    <3> QED BY <3>1, <3>2
  <2> QED BY <2>1, <2>2, <2>3, <2>4 DEF Held, Half
<1> QED BY <1>1, <1>2 DEF Commit

LEMMA NtlsHeld ==
  ASSUME Held, NEW t \in Terminals, NtlsConnection(t)
  PROVE  Held'
<1> PICK c \in Clients, s \in Slots :
      \/ CreateNtls(t, c, s) \/ DeleteNtls(t, c, s) \/ ConnectNtls(t, c, s)
      \/ DisconnectNtls(t, c, s) \/ RestoreNtls(t, c, s) \/ Convert(t, c, s)
  BY DEF NtlsConnection
<1>1. db \in Documents /\ db.cert \in Nat /\ db.ntls \subseteq NtlsLink
  BY DEF Held, Documents
<1>2. ASSUME NEW n \in NtlsLink, n.client = c, n.slot = s,
             n.state = "connected" => n.since = db.cert
      PROVE  Keeps(db, [db EXCEPT !.ntls = Others(db, c, s) \cup {n}])
  BY <1>1, <1>2, NtlsReplaced
<1>3. CASE CreateNtls(t, c, s)
  <2> DEFINE n == [client |-> c, slot |-> s, state |-> "assigned", since |-> 0]
  <2>1. /\ n \in NtlsLink /\ n.client = c /\ n.slot = s /\ n.state # "connected"
    BY DEF NtlsLink, LinkStates
  <2>2. Others(db, c, s) = db.ntls
    BY <1>3 DEF CreateNtls, Others
  <2>3. Commit(t, [db EXCEPT !.ntls = db.ntls \cup {n}], {})
    BY <1>3 DEF CreateNtls, Save
  <2> HIDE DEF n
  <2> QED BY <1>2, <2>1, <2>2, <2>3, CommitHeld
<1>4. CASE DeleteNtls(t, c, s)
  <2>1. Others(db, c, s) \cup {} = Others(db, c, s)
    OBVIOUS
  <2>2. Keeps(db, [db EXCEPT !.ntls = Others(db, c, s) \cup {}])
    BY <1>1, NtlsReplaced
  <2>3. Keeps(db, [db EXCEPT !.ntls = Others(db, c, s)])
    BY <2>1, <2>2
  <2> QED BY <1>4, <2>3, CommitHeld DEF DeleteNtls, Save
<1>5. ASSUME NEW k \in NtlsOf(db, c, s), NEW st \in LinkStates, NEW x \in Nat,
             st = "connected" => x = db.cert,
             Save(t, [db EXCEPT !.ntls = Others(db, c, s)
                                \cup {[k EXCEPT !.state = st, !.since = x]}])
      PROVE  Held'
  <2> DEFINE n == [k EXCEPT !.state = st, !.since = x]
  <2>1. k \in NtlsLink /\ k.client = c /\ k.slot = s
    BY <1>1 DEF NtlsOf
  <2>2. n \in NtlsLink /\ n.client = c /\ n.slot = s /\ n.state = st /\ n.since = x
    BY <2>1 DEF NtlsLink
  <2>3. Commit(t, [db EXCEPT !.ntls = Others(db, c, s) \cup {n}], {})
    BY <1>5 DEF Save
  <2> HIDE DEF n
  <2> QED BY <1>2, <1>5, <2>2, <2>3, CommitHeld
<1>6. CASE ConnectNtls(t, c, s)
  BY <1>1, <1>5, <1>6 DEF ConnectNtls, LinkStates
<1>7. CASE DisconnectNtls(t, c, s)
  BY <1>5, <1>7 DEF DisconnectNtls, LinkStates
<1>8. CASE RestoreNtls(t, c, s)
  BY <1>5, <1>8 DEF RestoreNtls, LinkStates
<1>9. CASE Convert(t, c, s)
  <2> DEFINE one == WithIdentity(db, "client", c)
             two == WithIdentity(one, "partition", s)
  <2>1. /\ Keeps(db, one) /\ one.cert = db.cert /\ one.ntls = db.ntls /\ Known(one, "client", c)
        /\ \A e \in HalfIdentity(db, "client", c) : Half(db, e)
    BY <1>1, IdentityThere DEF Kinds
  <2>2. Commit(t, Converted(two, c, s),
            {one, two} \cup HalfIdentity(db, "client", c)
                       \cup HalfIdentity(one, "partition", s) \cup HalfConverted(two, c, s))
    BY <1>9 DEF Convert
  <2> HIDE DEF one
  <2>3. one \in Documents
    BY <2>1 DEF Keeps
  <2>4. /\ Keeps(one, two) /\ two.cert = one.cert /\ two.ntls = one.ntls /\ Known(two, "partition", s)
        /\ Known(two, "client", c)
        /\ \A e \in HalfIdentity(one, "partition", s) : Half(one, e)
    BY <2>1, <2>3, IdentityThere DEF Kinds
  <2> HIDE DEF two
  <2>5. two \in Documents
    BY <2>4 DEF Keeps
  <2>6. /\ Keeps(two, Converted(two, c, s))
        /\ \A e \in HalfConverted(two, c, s) : Half(two, e)
    BY <2>4, <2>5, LinkConverted
  <2>7. Keeps(db, two) /\ two.cert = db.cert /\ two.ntls = db.ntls
    BY <2>1, <2>4, KeepsChain
  <2>8. Keeps(db, Converted(two, c, s))
    BY <2>6, <2>7, KeepsChain
  <2>9. /\ Half(db, one) /\ Half(db, two)
        /\ \A e \in HalfIdentity(one, "partition", s) : Half(db, e)
        /\ \A e \in HalfConverted(two, c, s) : Half(db, e)
    BY <2>1, <2>4, <2>6, <2>7, KeepsChain, KeepsIsHalf
  <2> QED BY <2>1, <2>2, <2>8, <2>9, CommitHeld
<1> QED BY <1>3, <1>4, <1>6, <1>7, <1>8, <1>9

LEMMA LinkHeld ==
  ASSUME Held, NEW t \in Terminals, LinkStep(t)
  PROVE  Held'
<1>1. db \in Documents
  BY DEF Held
<1>2. CASE RegenerateCert(t)
  <2> DEFINE r == [db EXCEPT !.cert = db.cert + 1]
             e == [r EXCEPT !.ntls = {Broken(n) : n \in r.ntls}]
  <2>1. Half(db, r) /\ Keeps(db, e)
    BY <1>1, CertificateRenewed
  <2>2. Commit(t, e, {r, e})
    BY <1>2 DEF RegenerateCert
  <2> HIDE DEF r, e
  <2> QED BY <2>1, <2>2, KeepsIsHalf, CommitHeld
<1>3. ASSUME NEW kind \in Kinds, NEW name \in Clients \cup Slots, CreateIdentity(t, kind, name)
      PROVE  Held'
  BY <1>1, <1>3, IdentityMade, CommitHeld DEF CreateIdentity
<1>4. ASSUME NEW kind \in Kinds, NEW name \in Clients \cup Slots, DeleteIdentity(t, kind, name)
      PROVE  Held'
  <2> DEFINE X == {i \in db.ids : ~(i.kind = kind /\ i.name = name)}
  <2>1. Commit(t, [db EXCEPT !.ids = X], {})
    BY <1>4 DEF DeleteIdentity, Save
  <2>2. X \in SUBSET db.ids
    OBVIOUS
  <2> HIDE DEF X
  <2> QED BY <1>1, <2>1, <2>2, Deleted, CommitHeld
<1>5. CASE StcIdentity(t)
  BY <1>3, <1>4, <1>5 DEF StcIdentity, Kinds
<1>6. ASSUME NEW c \in Clients, NEW p \in Slots, NEW s \in Slots, CreateStc(t, c, p, s)
      PROVE  Held'
  BY <1>1, <1>6, LinkMade, CommitHeld DEF CreateStc
<1>7. ASSUME NEW l \in db.stc, DeleteStc(t, l)
      PROVE  Held'
  <2> DEFINE X == {k \in db.stc : k.id # l.id}
  <2>1. Commit(t, [db EXCEPT !.stc = X], {})
    BY <1>7 DEF DeleteStc, Save
  <2>2. X \in SUBSET db.stc
    OBVIOUS
  <2> HIDE DEF X
  <2> QED BY <1>1, <2>1, <2>2, Deleted, CommitHeld
<1>8. ASSUME NEW l \in db.stc, NEW state \in LinkStates, SetLinkState(t, l, state)
      PROVE  Held'
  BY <1>1, <1>8, LinkStateSet, CommitHeld DEF SetLinkState, Save
<1>9. CASE StcConnection(t)
  BY <1>6, <1>7, <1>8, <1>9
    DEF StcConnection, ConnectStc, DisconnectStc, RestoreStc, LinkStates
<1> QED BY <1>2, <1>5, <1>9, NtlsHeld DEF LinkStep

\* Of the shell, a step on links only ever ends a terminal's process.
LEMMA LinkStepShell ==
  ASSUME NEW t \in Terminals, LinkStep(t)
  PROVE  /\ UNCHANGED <<account, bound, stcConfig, clients>>
         /\ me' \in {me, [me EXCEPT ![t] = Nobody]}
         /\ service' \in {service, [service EXCEPT !["ntls"] = TRUE]}
<1>1. ASSUME NEW final, NEW partial, Commit(t, final, partial)
      PROVE  /\ UNCHANGED <<account, bound, stcConfig, clients>>
             /\ me' \in {me, [me EXCEPT ![t] = Nobody]}
  BY <1>1 DEF Commit
<1>2. CASE RegenerateCert(t)
  BY <1>1, <1>2 DEF RegenerateCert
<1>3. CASE NtlsConnection(t)
  BY <1>1, <1>3, ZenonT(40) DEF NtlsConnection, CreateNtls, DeleteNtls, ConnectNtls, DisconnectNtls,
                    RestoreNtls, Convert, Save
<1>4. CASE StcIdentity(t)
  BY <1>1, <1>4 DEF StcIdentity, CreateIdentity, DeleteIdentity, Save
<1>5. CASE StcConnection(t)
  BY <1>1, <1>5 DEF StcConnection, CreateStc, DeleteStc, ConnectStc, DisconnectStc,
                    RestoreStc, SetLinkState, Save
<1> QED BY <1>2, <1>3, <1>4, <1>5 DEF LinkStep

\* The accounts keep their type.
LEMMA AccountHeld ==
  ASSUME ShellTypeOK, NEW t \in Terminals, AccountStep(t)
  PROVE  ShellTypeOK'
<1> USE ShellAssumption, AccountAssumption DEF ShellTypeOK, Exists, CheckRole, Settings
<1>1. ASSUME NEW n \in Names, account[n] # Nobody
      PROVE  /\ account[n] \in Account
             /\ \A q \in Passwords : [account[n] EXCEPT !.password = q] \in Account
             /\ \A on \in BOOLEAN : [account[n] EXCEPT !.enabled = on] \in Account
  BY <1>1 DEF Account
<1>2. ASSUME NEW n \in Names, NEW q \in Passwords, Login(t, n, q)
      PROVE  ShellTypeOK'
  <2> DEFINE a == [account[n] EXCEPT !.password = q]
  <2>1. /\ account[n] # Nobody
        /\ account' = [account EXCEPT ![n] = a]
        /\ me' = [me EXCEPT ![t] = [name |-> n, account |-> a]]
        /\ UNCHANGED Settings
    BY <1>2 DEF Login
  <2>2. /\ a \in Account /\ a # Nobody
        /\ a.role = account[n].role /\ a.enabled = account[n].enabled
    BY <1>1, <2>1 DEF Account
  <2> HIDE DEF a
  <2> QED BY <2>1, <2>2
<1>3. CASE Logout(t)
  BY <1>3 DEF Logout
<1>4. ASSUME NEW n \in Names, NEW r \in Roles, NEW q \in Passwords \cup {NoPassword},
             AddUser(t, n, r, q)
      PROVE  ShellTypeOK'
  <2>1. [role |-> r, password |-> q, enabled |-> TRUE] \in Account
    BY DEF Account
  <2> QED BY <1>4, <2>1 DEF AddUser
<1>5. ASSUME NEW n \in Names, DeleteUser(t, n)
      PROVE  ShellTypeOK'
  BY <1>5 DEF DeleteUser
<1>6. ASSUME NEW n \in Names, NEW on \in BOOLEAN, account[n] # Nobody,
             account' = [account EXCEPT ![n].enabled = on], UNCHANGED <<me, Settings>>
      PROVE  ShellTypeOK'
  <2> DEFINE a == [account[n] EXCEPT !.enabled = on]
  <2>1. a \in Account /\ a # Nobody /\ a.role = account[n].role /\ a.enabled = on
    BY <1>1, <1>6 DEF Account
  <2>2. account' = [account EXCEPT ![n] = a]
    BY <1>6
  <2> HIDE DEF a
  <2> QED BY <1>6, <2>1, <2>2
<1>7. ASSUME NEW n \in Names, EnableUser(t, n) \/ DisableUser(t, n)
      PROVE  ShellTypeOK'
  BY <1>6, <1>7 DEF EnableUser, DisableUser
<1>8. ASSUME NEW n \in Names, NEW q \in Passwords, account[n] # Nobody,
             account' = [account EXCEPT ![n].password = q], UNCHANGED Settings,
             me' \in [Terminals -> [name : Names, account : Account] \cup {Nobody}]
      PROVE  ShellTypeOK'
  <2> DEFINE a == [account[n] EXCEPT !.password = q]
  <2>1. /\ a \in Account /\ a # Nobody
        /\ a.role = account[n].role /\ a.enabled = account[n].enabled
    BY <1>1, <1>8 DEF Account
  <2>2. account' = [account EXCEPT ![n] = a]
    BY <1>8
  <2> HIDE DEF a
  <2> QED BY <1>8, <2>1, <2>2
<1>9. ASSUME NEW n \in Names, NEW q \in Passwords, SetUserPassword(t, n, q)
      PROVE  ShellTypeOK'
  BY <1>8, <1>9 DEF SetUserPassword
<1>10. ASSUME NEW old \in Passwords, NEW new \in Passwords, SetMyPassword(t, old, new)
       PROVE  ShellTypeOK'
  <2>1. /\ me[t] \in [name : Names, account : Account]
        /\ [me[t] EXCEPT !.account.password = new] \in [name : Names, account : Account]
    <3>1. me[t] \in [name : Names, account : Account]
      BY <1>10 DEF SetMyPassword
    <3>2. me[t].account \in Account /\ [me[t].account EXCEPT !.password = new] \in Account
      BY <3>1 DEF Account
    <3> QED BY <3>1, <3>2
  <2>2. me' \in [Terminals -> [name : Names, account : Account] \cup {Nobody}]
    BY <1>10, <2>1 DEF SetMyPassword
  <2>3. CASE account[me[t].name] # Nobody
    BY <1>8, <1>10, <2>1, <2>2, <2>3 DEF SetMyPassword
  <2>4. CASE account[me[t].name] = Nobody
    BY <1>10, <2>2, <2>4 DEF SetMyPassword
  <2> QED BY <2>3, <2>4
<1> QED BY <1>2, <1>3, <1>4, <1>5, <1>7, <1>9, <1>10
          DEF AccountStep, Command, UserCommand, MyCommand

LEMMA SettingHeld ==
  ASSUME ShellTypeOK, NEW t \in Terminals, SettingStep(t)
  PROVE  ShellTypeOK'
<1> USE ShellAssumption DEF ShellTypeOK, Exists
<1>1. CASE ServiceCommand(t)
  BY <1>1 DEF ServiceCommand, StartService, StopService
<1>2. CASE NtlsCommand(t)
  BY <1>2 DEF NtlsCommand, BindInterface, UnbindInterface
<1>3. CASE StcCommand(t)
  <2>1. CASE EnableStc(t) \/ DisableStc(t)
    <3>1. service' \in [Services -> BOOLEAN]
      BY <2>1 DEF EnableStc, DisableStc
    <3>2. stcConfig' \in [enabled : BOOLEAN, cipher : Ciphers, hmac : BOOLEAN,
                          rekey : Int, timeout : Int]
      BY <2>1 DEF EnableStc, DisableStc
    <3> QED BY <2>1, <3>1, <3>2 DEF EnableStc, DisableStc
  <2>2. ASSUME NEW c \in Ciphers, SetStcCipher(t, c) PROVE ShellTypeOK'
    BY <2>2 DEF SetStcCipher
  <2>3. ASSUME NEW on \in BOOLEAN, SetStcHmac(t, on) PROVE ShellTypeOK'
    BY <2>3 DEF SetStcHmac
  <2>4. ASSUME NEW n \in Numbers, SetStcRekeyThreshold(t, n) \/ SetStcActivationTimeout(t, n)
        PROVE  ShellTypeOK'
    <3>1. n \in Int
      OBVIOUS
    <3> QED BY <2>4, <3>1 DEF SetStcRekeyThreshold, SetStcActivationTimeout
  <2> QED BY <1>3, <2>1, <2>2, <2>3, <2>4 DEF StcCommand
<1> QED BY <1>1, <1>2, <1>3 DEF SettingStep

-----------------------------------------------------------------------------
(* The invariant and what follows from it.                                 *)

LEMMA InitHeld == Init => NInv
<1> SUFFICES ASSUME Init PROVE NInv
  OBVIOUS
<1>1. ShellTypeOK
  <2>1. account \in [Names -> Account \cup {Nobody}]
    BY SMT DEF Init, ShellInit, Account
  <2>2. stcConfig \in [enabled : BOOLEAN, cipher : Ciphers, hmac : BOOLEAN,
                       rekey : Int, timeout : Int]
    BY ShellAssumption, SMT DEF Init, ShellInit
  <2>3. /\ me \in [Terminals -> [name : Names, account : Account] \cup {Nobody}]
        /\ service \in [Services -> BOOLEAN]
        /\ bound \subseteq Interfaces
    BY ShellAssumption, SMT DEF Init, ShellInit
  <2> QED BY <2>1, <2>2, <2>3 DEF ShellTypeOK
<1>2. ClientsOK
  BY DEF Init, NetInit, ClientsOK
<1>3. db \in Documents /\ torn = {} /\ stale = {}
  BY DEF Init, NetInit, Documents
<1>4. Pairs(db) /\ Sound(db) /\ Current(db, stale)
  BY DEF Init, NetInit, Pairs, Sound, Current
<1> QED BY <1>1, <1>2, <1>3, <1>4 DEF NInv, Held

LEMMA StepHeld == NInv /\ [Next]_vars => NInv'
<1> SUFFICES ASSUME NInv, [Next]_vars PROVE NInv'
  OBVIOUS
<1>1. CASE UNCHANGED vars
  BY <1>1 DEF NInv, ShellTypeOK, ClientsOK, Held, vars, shellVars, netVars
<1>2. ASSUME NEW t \in Terminals, AccountStep(t) \/ SettingStep(t), UNCHANGED netVars
      PROVE  NInv'
  <2>1. ShellTypeOK'
    BY <1>2, AccountHeld, SettingHeld DEF NInv
  <2>2. ClientsOK' /\ Held'
    BY <1>2 DEF NInv, ClientsOK, Held, netVars
  <2> QED BY <2>1, <2>2 DEF NInv
<1>3. ASSUME NEW t \in Terminals, ClientCommand(t) PROVE NInv'
  <2>1. UNCHANGED <<shellVars, db, torn, stale>>
    BY <1>3 DEF ClientCommand, RegisterClient, DeleteClient, AssignPartition, RevokePartition
  <2>2. clients' \in [Clients -> (SUBSET Slots) \cup {Nobody}]
    <3>1. ASSUME NEW c \in Clients, RegisterClient(t, c) \/ DeleteClient(t, c)
          PROVE  clients' \in [Clients -> (SUBSET Slots) \cup {Nobody}]
      BY <3>1 DEF NInv, ClientsOK, RegisterClient, DeleteClient
    <3>2. ASSUME NEW c \in Clients, NEW s \in Slots,
                 AssignPartition(t, c, s) \/ RevokePartition(t, c, s)
          PROVE  clients' \in [Clients -> (SUBSET Slots) \cup {Nobody}]
      <4>1. clients[c] \in SUBSET Slots
        BY <3>2 DEF NInv, ClientsOK, AssignPartition, RevokePartition
      <4>2. clients[c] \cup {s} \in SUBSET Slots /\ clients[c] \ {s} \in SUBSET Slots
        BY <4>1
      <4> QED BY <3>2, <4>2 DEF NInv, ClientsOK, AssignPartition, RevokePartition
    <3> QED BY <1>3, <3>1, <3>2 DEF ClientCommand
  <2> QED BY <2>1, <2>2 DEF NInv, ShellTypeOK, ClientsOK, Held, shellVars
<1>4. ASSUME NEW t \in Terminals, LinkStep(t) PROVE NInv'
  <2>1. /\ UNCHANGED <<account, bound, stcConfig, clients>>
        /\ me' \in {me, [me EXCEPT ![t] = Nobody]}
        /\ service' \in {service, [service EXCEPT !["ntls"] = TRUE]}
    BY <1>4, LinkStepShell
  <2>2. Held'
    BY <1>4, LinkHeld DEF NInv
  <2>3. ShellTypeOK'
    BY <2>1 DEF NInv, ShellTypeOK, Services
  <2> QED BY <2>1, <2>2, <2>3 DEF NInv, ClientsOK
<1> QED BY <1>1, <1>2, <1>3, <1>4 DEF Next

LEMMA Inductive == Spec => []NInv
<1> QED BY InitHeld, StepHeld, PTL DEF Spec

\* The variables keep their types: the documents hold only links and
\* identities, whatever a shell stopped between two saves leaves behind.
THEOREM NetworkTypeCorrect == Spec => []TypeOK
<1>1. NInv => TypeOK
  BY DEF NInv, TypeOK, NetTypeOK, ClientsOK, Held
<1> QED BY <1>1, Inductive, PTL

\* One NTLS link for a client and a slot and one STC link for two identities
\* (create_ntls, create_stc_link, convert_ntls_to_stc), and a number names one
\* STC link unless a shell was stopped before it saved the counter.
THEOREM LinksUnique == Spec => []OneLinkPerPair
<1>1. NInv => OneLinkPerPair
  BY DEF NInv, Held, Pairs, Sound, OneLinkPerPair
<1> QED BY <1>1, Inductive, PTL

\* The number of an identity that was deleted is never given to another one
\* while an STC link still holds it (delete_client_identity spares only the
\* links that are connected).
THEOREM NumbersKeepMeaning == Spec => []IdentityMeansOne
<1>1. NInv => IdentityMeansOne
  BY DEF NInv, Held, Sound, IdentityMeansOne
<1> QED BY <1>1, Inductive, PTL

\* Every NTLS link that is up was connected under the certificate of the
\* server (sysconf regenCert breaks the others).  However often a shell is
\* stopped between a certificate and the links, only links that were up at
\* such a stop are served under an older one, and only until they are
\* connected again or a later certificate is completed.
THEOREM CertificateCurrent == Spec => []ServedUnderCurrentCert
<1>1. NInv => ServedUnderCurrentCert
  BY DEF NInv, Held, Current, InUse, ServedUnderCurrentCert
<1> QED BY <1>1, Inductive, PTL

\* A client has its way to the slot in d.
Reached(d, c, s) == NtlsOf(d, c, s) # {} \/ \E l \in d.stc : l.client = c /\ l.slot = s

LEMMA IdentityKeepsLinks ==
  ASSUME NEW d \in Documents, NEW kind \in Kinds, NEW name \in Clients \cup Slots
  PROVE  /\ ListIdentity(d, kind, name).ntls = d.ntls
         /\ WithIdentity(d, kind, name).ntls = d.ntls
BY DEF ListIdentity, WithIdentity, MakeIdentity, Documents

LEMMA ConvertedReached ==
  ASSUME NEW d \in Documents, NEW c \in Clients, NEW s \in Slots, NtlsOf(d, c, s) # {}
  PROVE  /\ Reached(Converted(d, c, s), c, s)
         /\ \A e \in HalfConverted(d, c, s) : Reached(e, c, s)
<1> DEFINE link == [id |-> d.nextLink, cid |-> IdOf(d, "client", c),
                   pid |-> IdOf(d, "partition", s), slot |-> s,
                   state |-> "registered", client |-> c, partition |-> s]
           listed == ListLink(d, c, s, s)
           made == MakeLink(d, c, s, s)
<1>1. link.client = c /\ link.slot = s
  OBVIOUS
<1>2. listed.stc = d.stc \cup {link} /\ listed.ntls = d.ntls
  BY DEF ListLink, Documents
<1>3. made.stc = d.stc \cup {link} /\ made.ntls = d.ntls
  BY DEF MakeLink, ListLink, Documents
<1>4. [made EXCEPT !.ntls = Others(d, c, s)].stc = d.stc \cup {link}
  BY DEF MakeLink, ListLink, Documents
<1> HIDE DEF link, listed, made
<1>5. CASE Linked(d, c, s)
  BY <1>5 DEF Converted, HalfConverted, Reached
<1>6. CASE ~Linked(d, c, s)
  <2>1. Converted(d, c, s) = [made EXCEPT !.ntls = Others(d, c, s)]
    BY <1>6 DEF Converted, made
  <2>2. HalfConverted(d, c, s) = {listed, made}
    BY <1>6 DEF HalfConverted, listed, made
  <2> QED BY <2>1, <2>2, <1>1, <1>2, <1>3, <1>4 DEF Reached
<1> QED BY <1>5, <1>6

\* A client whose NTLS link is being converted reaches its partition wherever
\* the command is stopped (convert_ntls_to_stc): identities, the STC link, and
\* only then the NTLS link.
THEOREM ConversionNeverCuts == Spec => ConversionKeepsAccess
<1>1. ASSUME NInv, NEW c \in Clients, NEW s \in Slots, NEW t \in Terminals, Convert(t, c, s)
      PROVE  Reached(db', c, s)
  <2> DEFINE one == WithIdentity(db, "client", c)
             two == WithIdentity(one, "partition", s)
             half == {one, two} \cup HalfIdentity(db, "client", c)
                       \cup HalfIdentity(one, "partition", s) \cup HalfConverted(two, c, s)
  <2>1. NtlsOf(db, c, s) # {} /\ Commit(t, Converted(two, c, s), half)
    BY <1>1 DEF Convert
  <2>2. db' = Converted(two, c, s) \/ db' \in half
    BY <2>1 DEF Commit
  <2>3. db \in Documents
    BY <1>1 DEF NInv, Held
  <2>4. one \in Documents /\ Known(one, "client", c)
    BY <2>3, IdentityThere DEF Kinds, Keeps
  <2>5. /\ one.ntls = db.ntls
        /\ \A e \in HalfIdentity(db, "client", c) : e.ntls = db.ntls
    BY <2>3, IdentityKeepsLinks DEF HalfIdentity, Kinds
  <2> HIDE DEF one
  <2>6. two \in Documents
    BY <2>4, IdentityThere DEF Kinds, Keeps
  <2>7. /\ two.ntls = db.ntls
        /\ \A e \in HalfIdentity(one, "partition", s) : e.ntls = db.ntls
    BY <2>4, <2>5, IdentityKeepsLinks DEF HalfIdentity, Kinds
  <2> HIDE DEF two
  <2>8. /\ Reached(Converted(two, c, s), c, s)
        /\ \A e \in HalfConverted(two, c, s) : Reached(e, c, s)
    BY <2>1, <2>6, <2>7, ConvertedReached DEF NtlsOf
  <2>9. \A e : e.ntls = db.ntls => Reached(e, c, s)
    BY <2>1 DEF Reached, NtlsOf
  <2> QED BY <2>2, <2>5, <2>7, <2>8, <2>9
<1>2. NInv => [\A c \in Clients, s \in Slots, t \in Terminals : Convert(t, c, s) =>
                 \/ NtlsOf(db', c, s) # {}
                 \/ \E l \in db'.stc : l.client = c /\ l.slot = s]_vars
  BY <1>1 DEF Reached
<1> QED BY <1>2, Inductive, PTL DEF ConversionKeepsAccess
=============================================================================
