----------------------------- MODULE MCHsmAdmin -----------------------------
(* HsmAdmin on small sets, for TLC.  A behaviour is explored within one group *)
(* of commands, chosen at the start, from the states the group is about: the *)
(* states add up instead of multiplying.  Once a stopped shell has left the  *)
(* HSM half changed, nothing but a logout is tried.                          *)
EXTENDS HsmAdmin, TLC

CONSTANT Foci    \* the groups of commands: "domains", "keys", "policies", "officer", "ped", "backup"

VARIABLE focus

MCLabelOf == [k1 |-> "pair", k2 |-> "pair", k3 |-> "single"]

MCTemplates == {1 :> 1, 43 :> 1, 44 :> 0}

\* Partitions in the given slots, initialized with domain d.
With(slots, d) ==
  [Empty EXCEPT
     !.part = [s \in Slots |-> IF s \in slots
                 THEN [name |-> IF s = 1 THEN "n1" ELSE "n2", initialized |-> TRUE,
                       po |-> "p1", co |-> TRUE]
                 ELSE None],
     !.life = [s \in Slots |-> IF s \in slots
                 THEN [type |-> "PPSO", version |-> 0, active |-> TRUE, domain |-> TRUE]
                 ELSE None],
     !.dom = [s \in Slots |-> IF s \in slots THEN Explicit(d) ELSE None]]

MCInit ==
  /\ focus \in Foci
  /\ BackupInitState /\ AdminInit
  /\ shell = [t \in Terminals |->
                [Fresh EXCEPT !.so = focus \notin {"officer", "ped"} /\ t = "t1",
                              !.plugged = focus = "backup" /\ t = "t2"]]
  /\ blobs = {} /\ dead = {} /\ torn = {}
  /\ db = CASE focus = "domains" -> [With(Slots, "dA") EXCEPT !.pol[1][44] = 1]
            [] focus = "keys" -> [With({2}, "dA") EXCEPT !.life[2].version = 1]
            [] focus = "policies" -> With({1}, "dA")
            [] focus = "backup" -> With(Slots, "dA")
            [] OTHER -> Empty

\* The second partition only inherits or goes back, and lends its domain.
DomainStep(t) ==
  \/ /\ LunaShDomain(t) \/ LunaCmDomain(t)
     /\ db'.dom[2] \in {Inherited, Explicit("dA")}
     /\ db'.hsmDomain \in {None, OwnDomain, "dB"}
  \/ ClonePartition(t, 1, 2) \/ CreateObject(t, 1, "k1")
  \/ \E v \in 0..1 : ChangePolicy(t, 1, 44, v)
  \/ \E d \in {"dA", "dB"} : InitToken(t, 1, "p1", d)

\* The versions and credentials that matter to master keys only.
KeyStep(t) ==
  \/ \E v \in {0, 1} : CreatePartition(t, "n1", "PPSO", v)
  \/ DeletePartition(t, 1)
  \/ LunaCmSmk(t)
  \/ InitPartition(t, 1, "p1", "dA") \/ InitRole(t, 1) \/ CreateObject(t, 1, "k1") \/ Extract(t, 1, "k1")
  \/ \E s \in Slots, b \in blobs : Insert(t, s, b)

PolicyStep(t) ==
  \/ LunaShContents(t) \/ LunaCmPolicy(t) \/ TemplateCommand(t) \/ FirmwareCommand(t)
  \/ \E k \in {"k1", "k2"} : CreateObject(t, 1, k)

\* At most one partition, of one domain.
OfficerPartitionStep(t) ==
  \/ /\ LunaShPartition(t) \/ LunaCmPartition(t)
     /\ db'.part[2] = None
     /\ db'.dom[1] \in {None, Explicit("dA")}
     /\ db'.part[1] # None => db'.part[1].name = "n1"
  \/ InitRole(t, 1)

\* The second terminal logs in, logs out and zeroizes.
OfficerStep(t) ==
  \/ t = "t1" /\ HsmCommand(t)
  \/ t = "t2" /\ (HsmLogout(t) \/ Zeroize(t) \/ HsmLoginPed(t) \/ \E pin \in Pins : HsmLogin(t, pin))

PedStep(t) ==
  \/ PedCommand(t) \/ PedKey(t)
  \/ HsmLoginPed(t) \/ HsmLogout(t) \/ Zeroize(t) \/ FactoryReset(t) \/ HsmInit(t, "ped", None)

\* The partitions whose objects are backed up; the second, which may change its
\* domain, stays out of it once the firmware is changed.
OldFirmwareAlone ==
  (bk'.prev # None \/ bk'.fw # "new") => db'.obj[2] = {} /\ db'.dom[2] = Explicit("dA")

BackupPartitionStep(t) ==
  \/ \E k \in {"k1", "k2"} : CreateObject(t, 1, k)
  \/ CreateObject(t, 2, "k3")
  \/ ClearPartition(t, 1)
  \/ \E d \in {"dA", "dB"} : SetPartitionDomain(t, 2, d)

\* One PIN, two domains.  The second terminal, connected already, resets.
BackupStep(t) ==
  /\ \/ t = "t1" /\ BackupCommand(t)
     \/ t = "t2" /\ BackupFactoryReset(t) /\ shell'["t2"] = shell["t2"]
  /\ bk'.pin # "p2"
  /\ \A i \in DOMAIN bk'.parts : bk'.parts[i].domain \in {"dA", "dB"}
  /\ Len(bk'.parts) = 2 => bk'.parts[1].domain = "dA"

MCNext ==
  /\ UNCHANGED focus
  /\ \E t \in Terminals :
       \/ /\ focus = "backup" /\ UNCHANGED <<admin, split>>
          /\ BackupStep(t) \/ (t = "t1" /\ BackupPartitionStep(t) /\ NoBackup)
          /\ OldFirmwareAlone
       \/ /\ torn = {} /\ UNCHANGED <<admin, split>> /\ NoBackup
          /\ \/ focus = "domains" /\ t = "t1" /\ DomainStep(t)
             \/ focus = "keys" /\ t = "t1" /\ KeyStep(t)
             \/ focus = "policies" /\ t = "t1" /\ PolicyStep(t)
             \/ focus = "officer" /\ t = "t1" /\ OfficerPartitionStep(t)
       \/ /\ torn = {} /\ NoBackup
          /\ \/ focus = "keys" /\ t = "t1" /\ Zeroize(t)
             \/ focus = "officer" /\ OfficerStep(t)
             \/ focus = "ped" /\ PedStep(t)
       \/ torn # {} /\ HsmLogout(t) /\ NoBackup

MCSpec == MCInit /\ [][MCNext]_<<vars, focus>>
=============================================================================
