--------------------------- MODULE SecretsProofs ---------------------------
(***************************************************************************)
(* Proofs about what the coordinator protects.                             *)
(*                                                                         *)
(* Secrets, for any records, keys, secret sets and versions: no secret     *)
(* value in the clear on disk, none lost by a rotation, none answered      *)
(* without its audit event.                                                *)
(*                                                                         *)
(* Credentials, for any tokens, serials, callers and boots: TokensInv says *)
(* which root token may be alive at each step of a rotation, CertsInv how  *)
(* far each revocation is on its way to disk, cache and answer.            *)
(***************************************************************************)
EXTENDS Secrets, Credentials, TLAPS

Rings == [keks : SUBSET Versions, active : 0..MaxVersion]

\* The active version is one of those loaded; none is active when none is.
GoodRing(kr) == IF kr.active = 0 THEN kr.keks = {} ELSE kr.active \in kr.keks

\* A record on disk: each key once, plain or sealed under a loaded version.
Kept(d, keks) ==
    /\ d.saves # 0
    /\ d.plain \cup Sealed(d.sealed) = Keys
    /\ d.plain \cap Sealed(d.sealed) = {}
    /\ d.ringed => d.plain \cap d.secret = {}
    /\ \A e \in d.sealed : e[2] \in keks

Whole(d, keks) == d = Missing \/ Kept(d, keks)

\* Every envelope is under version v.
Current(d, v) == \A e \in d.sealed : e[2] = v

RingInv ==
    /\ GoodRing(conf)
    /\ up => ring = conf
    /\ ~up => sweep = NoSweep
    /\ sweep.on => up
    /\ (sweep.on \/ swept) => conf.active # 0

DiskInv == \A r \in Recs : Whole(disk[r], conf.keks)

\* What a sweep still has to write is what it read, and tells of the same keys.
PlanInv ==
    /\ sweep.left # {} => sweep.on
    /\ \A r \in sweep.left :
          /\ Kept(sweep.plan[r], conf.keks)
          /\ disk[r] # Missing
          /\ sweep.plan[r].secret = disk[r].secret

\* A record with an older envelope is one the sweep has yet to write, and no
\* save came in between; once a sweep ended there is none.
SealInv ==
    \A r \in Recs :
        \/ Current(disk[r], conf.active)
        \/ /\ ~swept
           /\ sweep.on => r \in sweep.left /\ disk[r] = sweep.plan[r]

MemInv ==
    up => \A r \in Recs :
        /\ mem[r] = Absent <=> disk[r] = Missing
        /\ mem[r] # Absent => mem[r].env = Keys
        /\ mem[r].secret = disk[r].secret

ShownInv ==
    /\ reveal \subseteq audit
    /\ \A r \in Recs : \A k \in Keys : <<r, k>> \in reveal => disk[r] # Missing
    /\ \A r \in Recs : \A k \in Keys : <<r, k>> \in shown =>
          disk[r] # Missing /\ (k \in disk[r].secret => <<r, k>> \in audit)

SecretsInv ==
    SecretsTypeOK /\ RingInv /\ DiskInv /\ PlanInv /\ SealInv /\ MemInv /\ ShownInv

-----------------------------------------------------------------------------
(* The operators.                                                          *)

\* The constants of a record that was never saved have their types.
LEMMA MissingTyped == Missing \in DiskRecs /\ Absent \in MemRecs /\ Sealed({}) = {}
  BY DEF Missing, Absent, DiskRecs, MemRecs, Sealed

\* main's ring is what the environment names.
LEMMA ConfiguredIsConf ==
    ASSUME NEW c \in Rings, GoodRing(c) PROVE configured(c) = c
  <1>1. CASE c.active = 0
    BY <1>1 DEF configured, NoRing, GoodRing, Rings
  <1>2. CASE c.active # 0
    <2>1. {c.active} \cup (c.keks \ {c.active}) = c.keks
      BY <1>2 DEF GoodRing
    <2>2. AddKEKs(NewKeyRing(c.active), c.keks \ {c.active})
            = [keks |-> {c.active} \cup (c.keks \ {c.active}), active |-> c.active]
      BY DEF AddKEKs, NewKeyRing
    <2> QED BY <1>2, <2>1, <2>2 DEF configured, Rings
  <1> QED BY <1>1, <1>2

\* A save writes a whole record, sealed under the active version.
LEMMA CopyIsWhole ==
    ASSUME NEW m \in MemRecs, m.env = Keys, m.saves # 0, NEW kr \in Rings, GoodRing(kr)
    PROVE  /\ onDiskCopy(m, kr) \in DiskRecs
           /\ Kept(onDiskCopy(m, kr), kr.keks)
           /\ Current(onDiskCopy(m, kr), kr.active)
           /\ onDiskCopy(m, kr).secret = m.secret
           /\ onDiskCopy(m, kr) # Missing
  <1> DEFINE moved == IF kr.active = 0 THEN {} ELSE m.secret \cap m.env
             sealed == {Encrypt(k, kr) : k \in moved}
             d == onDiskCopy(m, kr)
  <1>1. d = [saves |-> m.saves, plain |-> m.env \ moved, secret |-> m.secret,
             sealed |-> sealed, ringed |-> kr.active # 0]
    BY DEF onDiskCopy, encryptSecretsInPlace
  <1>2. moved \subseteq Keys
    BY DEF MemRecs
  <1>3. \A e \in sealed : e[2] = kr.active /\ e[1] \in moved
    BY DEF Encrypt
  <1>4. sealed \subseteq Keys \X Versions
    <2>1. kr.active = 0 \/ kr.active \in Versions
      BY DEF Rings, Versions
    <2> QED BY <2>1, <1>2 DEF Encrypt
  <1>5. Sealed(sealed) = moved
    <2>1. \A k \in moved : <<k, kr.active>> \in sealed
      BY DEF Encrypt
    <2>2. \A k \in moved : <<k, kr.active>>[1] = k
      OBVIOUS
    <2>3. moved \subseteq Sealed(sealed)
      BY <2>1, <2>2 DEF Sealed
    <2> QED BY <2>3, <1>3 DEF Sealed
  <1>6. \A e \in sealed : e[2] \in kr.keks
    BY <1>3 DEF GoodRing
  <1> HIDE DEF sealed
  <1>7. d \in DiskRecs
    BY <1>1, <1>4 DEF DiskRecs, MemRecs
  <1>8. Kept(d, kr.keks)
    <2>1. d.saves = m.saves /\ d.plain = Keys \ moved /\ d.secret = m.secret /\ d.sealed = sealed
      BY <1>1
    <2>2. d.ringed => d.plain \cap d.secret = {}
      <3>1. CASE kr.active = 0
        <4> HIDE DEF d, moved
        <4>1. d.ringed = (kr.active # 0)
          BY <1>1
        <4> QED BY <3>1, <4>1, Zenon
      <3>2. CASE kr.active # 0
        BY <2>1, <3>2
      <3> QED BY <3>1, <3>2
    <2> HIDE DEF moved, d
    <2> QED BY <1>2, <1>5, <1>6, <2>1, <2>2 DEF Kept
  <1>9. d # Missing
    BY <1>1 DEF Missing, MemRecs
  <1> QED BY <1>1, <1>3, <1>7, <1>8, <1>9 DEF Current

\* A rewrapped record is whole, and its envelopes are under the active version.
LEMMA RewrapIsWhole ==
    ASSUME NEW d \in DiskRecs, NEW kr \in Rings, GoodRing(kr), kr.active # 0, Kept(d, kr.keks)
    PROVE  /\ rewrapRecord(d, kr) \in DiskRecs
           /\ Kept(rewrapRecord(d, kr), kr.keks)
           /\ Current(rewrapRecord(d, kr), kr.active)
           /\ rewrapRecord(d, kr).secret = d.secret
           /\ rewrapRecord(d, kr) # Missing
  <1> DEFINE sealed == {Rewrap(e, kr) : e \in d.sealed}
             w == rewrapRecord(d, kr)
  <1>1. w = [d EXCEPT !.sealed = sealed]
    BY DEF rewrapRecord
  <1>2. \A e \in d.sealed : e \in Keys \X Versions
    BY DEF DiskRecs
  <1>3. \A e \in d.sealed : /\ Rewrap(e, kr)[1] = e[1]
                            /\ Rewrap(e, kr)[2] = kr.active
                            /\ Rewrap(e, kr) \in Keys \X Versions
    BY <1>2 DEF Rewrap, Encrypt, Rings, Versions
  <1>4. sealed \subseteq Keys \X Versions /\ \A e \in sealed : e[2] = kr.active
    BY <1>3
  <1>5. Sealed(sealed) = Sealed(d.sealed)
    BY <1>3 DEF Sealed
  <1>6. kr.active \in kr.keks
    BY DEF GoodRing
  <1> HIDE DEF sealed
  <1>7. w \in DiskRecs /\ w.saves = d.saves /\ w.plain = d.plain /\ w.secret = d.secret
        /\ w.ringed = d.ringed /\ w.sealed = sealed
    BY <1>1, <1>4 DEF DiskRecs
  <1>8. Kept(w, kr.keks)
    BY <1>4, <1>5, <1>6, <1>7 DEF Kept
  <1>9. w # Missing
    BY <1>7, <1>8 DEF Kept, Missing
  <1> QED BY <1>4, <1>7, <1>8, <1>9 DEF Current

-----------------------------------------------------------------------------
(* The steps.                                                              *)

\* At the first boot nothing is on disk.
LEMMA InitInv == Init => SecretsInv
  <1> SUFFICES ASSUME Init PROVE SecretsInv
    OBVIOUS
  <1>1. conf \in Rings /\ GoodRing(conf)
    BY SecretsAssumption DEF Init, NoRing, Rings, GoodRing, Versions
  <1>2. ring \in Rings
    BY SecretsAssumption DEF Init, NoRing, Rings
  <1>3. SecretsTypeOK
    BY <1>1, <1>2, MissingTyped DEF Init, SecretsTypeOK, NoSweep, Rings
  <1>4. RingInv /\ DiskInv /\ PlanInv /\ MemInv /\ ShownInv
    BY <1>1 DEF Init, NoSweep, RingInv, DiskInv, Whole, PlanInv, MemInv, ShownInv
  <1>5. SealInv
    <2>1. \A r \in Recs : disk[r] = Missing
      BY DEF Init
    <2>2. Missing.sealed = {}
      BY DEF Missing
    <2>3. \A r \in Recs : Current(disk[r], conf.active)
      BY <2>1, <2>2 DEF Current
    <2> QED BY <2>3 DEF SealInv
  <1> QED BY <1>3, <1>4, <1>5 DEF SecretsInv

\* A boot takes every record into memory as it is on disk.
LEMMA BootInv == SecretsInv /\ Boot => SecretsInv'
  <1> SUFFICES ASSUME SecretsInv, Boot PROVE SecretsInv'
    OBVIOUS
  <1> USE DEF SecretsInv
  <1>1. conf \in Rings /\ configured(conf) = conf
    BY ConfiguredIsConf DEF SecretsTypeOK, RingInv, Rings
  <1>2. \A r \in Recs : /\ disk[r] \in DiskRecs
                        /\ inMemoryForm(disk[r]) \in MemRecs
                        /\ inMemoryForm(disk[r]).secret = disk[r].secret
    BY DEF SecretsTypeOK, inMemoryForm, DiskRecs, MemRecs, Sealed
  <1>3. \A r \in Recs : disk[r] = Missing => inMemoryForm(disk[r]) = Absent
    BY MissingTyped DEF inMemoryForm, Absent, Missing
  <1>4. \A r \in Recs : disk[r] # Missing =>
            inMemoryForm(disk[r]) # Absent /\ inMemoryForm(disk[r]).env = Keys
    BY DEF DiskInv, Whole, Kept, inMemoryForm, Absent
  <1>5. SecretsTypeOK'
    BY <1>1, <1>2 DEF SecretsTypeOK, Boot, Rings
  <1>6. RingInv'
    BY <1>1 DEF RingInv, Boot, GoodRing
  <1>7. (DiskInv /\ PlanInv /\ SealInv /\ ShownInv)'
    BY DEF Boot, DiskInv, PlanInv, SealInv, ShownInv
  <1>8. MemInv'
    BY <1>2, <1>3, <1>4 DEF MemInv, Boot
  <1> QED BY <1>5, <1>6, <1>7, <1>8

\* A crash loses memory, the sweep and the answers under way.
LEMMA CrashInv == SecretsInv /\ Crash => SecretsInv'
  <1> SUFFICES ASSUME SecretsInv, Crash PROVE SecretsInv'
    OBVIOUS
  <1> USE DEF SecretsInv
  <1>1. SecretsTypeOK'
    BY MissingTyped DEF SecretsTypeOK, Crash, NoSweep
  <1>2. (RingInv /\ DiskInv /\ PlanInv /\ MemInv /\ ShownInv)'
    BY DEF Crash, NoSweep, RingInv, GoodRing, DiskInv, PlanInv, MemInv, ShownInv
  <1>3. SealInv'
    BY DEF Crash, NoSweep, SealInv
  <1> QED BY <1>1, <1>2, <1>3

\* A new version leaves the old ones loaded.
LEMMA AddVersionInv == SecretsInv /\ AddVersion => SecretsInv'
  <1> SUFFICES ASSUME SecretsInv, AddVersion PROVE SecretsInv'
    OBVIOUS
  <1> USE DEF SecretsInv
  <1>1. conf' \in Rings /\ GoodRing(conf') /\ conf.keks \subseteq conf'.keks
    BY SecretsAssumption DEF AddVersion, SecretsTypeOK, Rings, GoodRing, Versions
  <1>2. SecretsTypeOK'
    BY <1>1 DEF SecretsTypeOK, AddVersion, Rings
  <1>3. RingInv'
    BY <1>1 DEF RingInv, AddVersion, NoSweep
  <1>4. (DiskInv /\ PlanInv)'
    BY <1>1 DEF AddVersion, DiskInv, PlanInv, Whole, Kept
  <1>5. SealInv'
    BY DEF AddVersion, SealInv, RingInv, NoSweep
  <1>6. (MemInv /\ ShownInv)'
    BY DEF AddVersion, MemInv, ShownInv
  <1> QED BY <1>2, <1>3, <1>4, <1>5, <1>6

\* The old versions go only after a sweep, when no envelope needs them.
LEMMA DropVersionsInv == SecretsInv /\ DropVersions => SecretsInv'
  <1> SUFFICES ASSUME SecretsInv, DropVersions PROVE SecretsInv'
    OBVIOUS
  <1> USE DEF SecretsInv
  <1>1. conf' \in Rings /\ GoodRing(conf') /\ conf'.active = conf.active /\ conf'.keks = {conf.active}
    BY DEF DropVersions, SecretsTypeOK, Rings, GoodRing, RingInv, Versions
  <1>2. SecretsTypeOK'
    BY <1>1 DEF SecretsTypeOK, DropVersions, Rings
  <1>3. RingInv'
    BY <1>1 DEF RingInv, DropVersions, NoSweep
  <1>4. DiskInv'
    BY <1>1 DEF DropVersions, DiskInv, SealInv, Current, Whole, Kept
  <1>5. PlanInv'
    BY DEF DropVersions, PlanInv, RingInv, NoSweep
  <1>6. (SealInv /\ MemInv /\ ShownInv)'
    BY <1>1 DEF DropVersions, SealInv, MemInv, ShownInv
  <1> QED BY <1>2, <1>3, <1>4, <1>5, <1>6

\* A record saved from memory: whole, current, and its secret keys unchanged
\* unless nothing of it was there.
LEMMA WriteInv ==
    ASSUME SecretsInv, up, NEW r \in Recs, NEW m \in MemRecs,
           m.env = Keys, m.saves # 0, mem[r] = Absent \/ m.secret = mem[r].secret,
           mem' = [mem EXCEPT ![r] = m],
           disk' = [disk EXCEPT ![r] = onDiskCopy(m, ring)],
           UNCHANGED <<conf, up, ring, sweep, swept, reveal, audit, logs, shown>>
    PROVE  SecretsInv'
  <1> DEFINE d == onDiskCopy(m, ring)
  <1> USE DEF SecretsInv
  <1>1. ring = conf /\ conf \in Rings /\ GoodRing(conf)
    BY DEF RingInv, SecretsTypeOK, Rings
  <1>2. /\ d \in DiskRecs /\ Kept(d, conf.keks) /\ Current(d, conf.active)
        /\ d.secret = m.secret /\ d # Missing
    BY <1>1, CopyIsWhole
  <1> HIDE DEF d
  <1>3. disk \in [Recs -> DiskRecs] /\ mem \in [Recs -> MemRecs]
    BY DEF SecretsTypeOK
  <1>4. disk' \in [Recs -> DiskRecs] /\ mem' \in [Recs -> MemRecs]
        /\ disk'[r] = d /\ mem'[r] = m
        /\ \A s \in Recs : s # r => disk'[s] = disk[s] /\ mem'[s] = mem[s]
    BY <1>2, <1>3 DEF d
  <1>5. m # Absent
    BY DEF Absent
  <1>6. disk[r] = Missing \/ d.secret = disk[r].secret
    BY <1>2 DEF MemInv
  <1>7. SecretsTypeOK'
    BY <1>4 DEF SecretsTypeOK
  <1>8. RingInv'
    BY DEF RingInv, GoodRing
  <1>9. DiskInv'
    BY <1>2, <1>4 DEF DiskInv, Whole
  <1>10. PlanInv'
    BY <1>2, <1>4, <1>6 DEF PlanInv, SecretsTypeOK
  <1>11. SealInv'
    <2> SUFFICES ASSUME NEW s \in Recs
                 PROVE  \/ Current(disk'[s], conf.active)
                        \/ /\ ~swept
                           /\ sweep.on => s \in sweep.left /\ disk'[s] = sweep.plan[s]
      BY DEF SealInv
    <2>1. CASE s = r
      BY <2>1, <1>2, <1>4
    <2>2. CASE s # r
      BY <2>2, <1>4 DEF SealInv
    <2> QED BY <2>1, <2>2
  <1>12. MemInv'
    BY <1>2, <1>4, <1>5 DEF MemInv
  <1>13. ShownInv'
    BY <1>2, <1>4, <1>6 DEF ShownInv
  <1> QED BY <1>7, <1>8, <1>9, <1>10, <1>11, <1>12, <1>13

\* Submit: the record is new, in memory and on disk.
LEMMA SubmitInv ==
    ASSUME SecretsInv, NEW r \in Recs, NEW secret \in SecretSets, Submit(r, secret)
    PROVE  SecretsInv'
  <1> DEFINE m == [saves |-> 1, env |-> Keys, secret |-> secret]
  <1>1. m \in MemRecs /\ m.env = Keys /\ m.saves # 0
    BY SecretsAssumption DEF MemRecs
  <1>2. up /\ mem[r] = Absent /\ mem' = [mem EXCEPT ![r] = m]
        /\ disk' = [disk EXCEPT ![r] = onDiskCopy(m, ring)]
        /\ UNCHANGED <<conf, up, ring, sweep, swept, reveal, audit, logs, shown>>
    BY DEF Submit
  <1> HIDE DEF m
  <1> QED BY <1>1, <1>2, WriteInv

\* A later save keeps the keys and their names.
LEMMA SaveInv ==
    ASSUME SecretsInv, NEW r \in Recs, Save(r) PROVE SecretsInv'
  <1> DEFINE m == [mem[r] EXCEPT !.saves = @ + 1]
  <1>1. up /\ mem[r].saves \in 1..(MaxSaves - 1) /\ mem' = [mem EXCEPT ![r] = m]
        /\ disk' = [disk EXCEPT ![r] = onDiskCopy(m, ring)]
        /\ UNCHANGED <<conf, up, ring, sweep, swept, reveal, audit, logs, shown>>
    BY DEF Save
  <1>2. mem[r] \in MemRecs
    BY DEF SecretsInv, SecretsTypeOK
  <1>3. mem[r] # Absent
    BY <1>1, SecretsAssumption DEF Absent
  <1>4. mem[r].env = Keys
    BY <1>1, <1>3 DEF SecretsInv, MemInv
  <1>5. m \in MemRecs /\ m.env = Keys /\ m.saves # 0 /\ m.secret = mem[r].secret
    BY <1>1, <1>2, <1>4, SecretsAssumption DEF MemRecs
  <1> HIDE DEF m
  <1> QED BY <1>1, <1>5, WriteInv

\* The plan is the disk as it is read.
LEMMA SweepReadInv == SecretsInv /\ SweepRead => SecretsInv'
  <1> SUFFICES ASSUME SecretsInv, SweepRead PROVE SecretsInv'
    OBVIOUS
  <1> USE DEF SecretsInv
  <1>1. sweep' = [plan |-> disk, left |-> {r \in Recs : disk[r] # Missing}, on |-> TRUE]
    BY DEF SweepRead
  <1>2. SecretsTypeOK'
    BY <1>1 DEF SecretsTypeOK, SweepRead
  <1>3. RingInv'
    BY <1>1 DEF RingInv, GoodRing, SweepRead
  <1>4. DiskInv'
    BY DEF DiskInv, SweepRead
  <1>5. PlanInv'
    BY <1>1 DEF PlanInv, DiskInv, Whole, SweepRead
  <1>6. SealInv'
    <2>1. \A r \in Recs : disk[r] # Missing => r \in sweep'.left /\ disk'[r] = sweep'.plan[r]
      BY <1>1 DEF SweepRead
    <2>2. \A r \in Recs : disk[r] = Missing => Current(disk'[r], conf'.active)
      BY DEF SweepRead, Current, Missing
    <2>3. \A r \in Recs : Current(disk[r], conf.active) \/ ~swept
      BY DEF SealInv
    <2>4. disk' = disk /\ conf' = conf /\ swept' = swept
      BY DEF SweepRead
    <2> QED BY <2>1, <2>2, <2>3, <2>4 DEF SealInv
  <1>7. (MemInv /\ ShownInv)'
    BY DEF SweepRead, MemInv, ShownInv
  <1> QED BY <1>2, <1>3, <1>4, <1>5, <1>6, <1>7

\* A record is rewritten with the active version, or is already under it.
LEMMA SweepWriteInv ==
    ASSUME SecretsInv, NEW r \in Recs, SweepWrite(r) PROVE SecretsInv'
  <1> USE DEF SecretsInv
  <1> DEFINE p == sweep.plan[r]
             w == rewrapRecord(p, ring)
             fresh == \A e \in p.sealed : e[2] = ring.active
  <1>1. /\ up /\ r \in sweep.left
        /\ sweep' = [sweep EXCEPT !.left = @ \ {r}]
        /\ disk' = IF fresh THEN disk ELSE [disk EXCEPT ![r] = w]
        /\ UNCHANGED <<conf, up, ring, mem, swept, reveal, audit, logs, shown>>
    BY DEF SweepWrite
  <1>2. /\ ring = conf /\ conf \in Rings /\ GoodRing(conf) /\ conf.active # 0
        /\ sweep.on /\ p \in DiskRecs /\ Kept(p, conf.keks)
        /\ disk[r] # Missing /\ p.secret = disk[r].secret
    BY <1>1 DEF RingInv, PlanInv, SecretsTypeOK, Rings
  <1>3. /\ w \in DiskRecs /\ Kept(w, conf.keks) /\ Current(w, conf.active)
        /\ w.secret = disk[r].secret /\ w # Missing
    BY <1>2, RewrapIsWhole
  <1> HIDE DEF w
  <1>4. disk \in [Recs -> DiskRecs]
    BY DEF SecretsTypeOK
  <1>5. fresh => disk' = disk /\ Current(p, conf.active)
    BY <1>1, <1>2 DEF Current
  <1>6. ~fresh => disk'[r] = w /\ disk' = [disk EXCEPT ![r] = w]
    BY <1>1, <1>4
  <1> HIDE DEF fresh
  <1>7. /\ disk' \in [Recs -> DiskRecs] /\ disk'[r].secret = disk[r].secret
        /\ disk'[r] # Missing /\ Whole(disk'[r], conf.keks)
        /\ \A s \in Recs : s # r => disk'[s] = disk[s]
    <2>1. CASE fresh
      BY <2>1, <1>2, <1>4, <1>5 DEF DiskInv
    <2>2. CASE ~fresh
      BY <2>2, <1>3, <1>4, <1>6 DEF Whole
    <2> QED BY <2>1, <2>2
  <1>8. /\ sweep'.plan = sweep.plan /\ sweep'.left = sweep.left \ {r} /\ sweep'.on = sweep.on
        /\ sweep' \in [plan : [Recs -> DiskRecs], left : SUBSET Recs, on : BOOLEAN]
    BY <1>1 DEF SecretsTypeOK
  <1>9. Current(disk'[r], conf.active)
    <2>1. CASE fresh
      <3>1. CASE Current(disk[r], conf.active)
        BY <2>1, <3>1, <1>5
      <3>2. CASE disk[r] = p
        BY <2>1, <3>2, <1>5
      <3> QED BY <3>1, <3>2, <1>2 DEF SealInv
    <2>2. CASE ~fresh
      BY <2>2, <1>3, <1>6
    <2> QED BY <2>1, <2>2
  <1>10. SecretsTypeOK'
    BY <1>1, <1>7, <1>8 DEF SecretsTypeOK
  <1>11. RingInv'
    BY <1>1, <1>2, <1>8 DEF RingInv, GoodRing
  <1>12. DiskInv'
    BY <1>1, <1>7 DEF DiskInv
  <1>13. PlanInv'
    BY <1>1, <1>2, <1>7, <1>8 DEF PlanInv, SecretsTypeOK
  <1>14. SealInv'
    <2> SUFFICES ASSUME NEW s \in Recs
                 PROVE  \/ Current(disk'[s], conf.active)
                        \/ /\ ~swept
                           /\ sweep'.on => s \in sweep'.left /\ disk'[s] = sweep'.plan[s]
      BY <1>1 DEF SealInv
    <2>1. CASE s = r
      BY <2>1, <1>9
    <2>2. CASE s # r
      BY <2>2, <1>7, <1>8 DEF SealInv
    <2> QED BY <2>1, <2>2
  <1>15. MemInv'
    BY <1>1, <1>2, <1>7 DEF MemInv
  <1>16. ShownInv'
    BY <1>1, <1>7 DEF ShownInv
  <1> QED BY <1>10, <1>11, <1>12, <1>13, <1>14, <1>15, <1>16

\* A sweep that wrote everything leaves no older envelope.
LEMMA SweepDoneInv == SecretsInv /\ SweepDone => SecretsInv'
  <1> SUFFICES ASSUME SecretsInv, SweepDone PROVE SecretsInv'
    OBVIOUS
  <1> USE DEF SecretsInv
  <1>1. SecretsTypeOK'
    BY MissingTyped DEF SecretsTypeOK, SweepDone, NoSweep
  <1>2. RingInv'
    BY DEF RingInv, GoodRing, SweepDone, NoSweep
  <1>3. PlanInv'
    BY DEF PlanInv, SweepDone, NoSweep
  <1>4. SealInv'
    BY DEF SealInv, SweepDone
  <1>5. (DiskInv /\ MemInv /\ ShownInv)'
    BY DEF SweepDone, DiskInv, MemInv, ShownInv
  <1> QED BY <1>1, <1>2, <1>3, <1>4, <1>5

\* One that fails leaves what it rewrapped.
LEMMA SweepFailsInv == SecretsInv /\ SweepFails => SecretsInv'
  <1> SUFFICES ASSUME SecretsInv, SweepFails PROVE SecretsInv'
    OBVIOUS
  <1> USE DEF SecretsInv
  <1>1. SecretsTypeOK'
    BY MissingTyped DEF SecretsTypeOK, SweepFails, NoSweep
  <1>2. RingInv'
    BY DEF RingInv, GoodRing, SweepFails, NoSweep
  <1>3. PlanInv'
    BY DEF PlanInv, SweepFails, NoSweep
  <1>4. SealInv'
    BY DEF SealInv, SweepFails, NoSweep
  <1>5. (DiskInv /\ MemInv /\ ShownInv)'
    BY DEF SweepFails, DiskInv, MemInv, ShownInv
  <1> QED BY <1>1, <1>2, <1>3, <1>4, <1>5

\* What an answer of the record r shows outside reveal: keys not secret.
LEMMA ShowInv ==
    ASSUME SecretsInv, up, NEW r \in Recs, mem[r] # Absent, NEW ks \in SUBSET Keys,
           ks \cap mem[r].secret = {},
           shown' = shown \cup {<<r, k>> : k \in ks},
           UNCHANGED <<conf, up, ring, mem, disk, sweep, swept, reveal, audit, logs>>
    PROVE  SecretsInv'
  <1> USE DEF SecretsInv
  <1>1. mem[r].secret = disk[r].secret /\ disk[r] # Missing
    BY DEF MemInv
  <1>2. \A s \in Recs, k \in Keys : <<s, k>> \in shown' => <<s, k>> \in shown \/ (s = r /\ k \in ks)
    OBVIOUS
  <1>3. SecretsTypeOK'
    BY DEF SecretsTypeOK
  <1>4. (RingInv /\ DiskInv /\ PlanInv /\ SealInv /\ MemInv)'
    BY DEF RingInv, GoodRing, DiskInv, PlanInv, SealInv, MemInv
  <1>5. ShownInv'
    BY <1>1, <1>2 DEF ShownInv
  <1> QED BY <1>3, <1>4, <1>5

\* The values a scrubber looks for are those declared secret.
LEMMA LookupIsSecret ==
    ASSUME SecretsInv, up, NEW r \in Recs, mem[r] # Absent
    PROVE  secretsLookup(r) = mem[r].secret
  <1>1. mem[r] \in MemRecs /\ mem[r].env = Keys
    BY DEF SecretsInv, SecretsTypeOK, MemInv
  <1> QED BY <1>1 DEF secretsLookup, MemRecs

\* jobToResponse and workflowToResponse redact.
LEMMA ResponseInv ==
    ASSUME SecretsInv, NEW r \in Recs, Show(r) PROVE SecretsInv'
  <1> DEFINE ks == redactSecretEnv(mem[r])
  <1>1. mem[r] \in MemRecs
    BY DEF SecretsInv, SecretsTypeOK
  <1>2. ks \in SUBSET Keys /\ ks \cap mem[r].secret = {}
    BY <1>1 DEF redactSecretEnv, MemRecs
  <1>3. up /\ mem[r] # Absent /\ shown' = shown \cup {<<r, k>> : k \in ks}
        /\ UNCHANGED <<conf, up, ring, mem, disk, sweep, swept, reveal, audit, logs>>
    BY DEF Show
  <1> HIDE DEF ks
  <1> QED BY <1>2, <1>3, ShowInv

\* handleGetJobLogs scrubs what it reads.
LEMMA GetJobLogsInv ==
    ASSUME SecretsInv, NEW r \in Recs, GetJobLogs(r) PROVE SecretsInv'
  <1> DEFINE stored == {v[2] : v \in {v \in logs : v[1] = r}}
             ks == Scrub(stored, secretsLookup(r))
  <1>1. up /\ mem[r] # Absent /\ shown' = shown \cup {<<r, k>> : k \in ks}
        /\ UNCHANGED <<conf, up, ring, mem, disk, sweep, swept, reveal, audit, logs>>
    BY DEF GetJobLogs
  <1>2. stored \subseteq Keys
    BY DEF SecretsInv, SecretsTypeOK
  <1>3. ks \in SUBSET Keys /\ ks \cap mem[r].secret = {}
    BY <1>1, <1>2, LookupIsSecret DEF Scrub
  <1> HIDE DEF ks
  <1> QED BY <1>1, <1>3, ShowInv

\* A stored chunk answers nobody yet.
LEMMA StreamLogsInv ==
    ASSUME SecretsInv, NEW r \in Recs, NEW k \in Keys, StreamLogs(r, k) PROVE SecretsInv'
  <1> USE DEF SecretsInv
  <1>1. SecretsTypeOK'
    BY DEF SecretsTypeOK, StreamLogs, Scrub
  <1>2. (RingInv /\ DiskInv /\ PlanInv /\ SealInv /\ MemInv /\ ShownInv)'
    BY DEF StreamLogs, RingInv, GoodRing, DiskInv, PlanInv, SealInv, MemInv, ShownInv
  <1> QED BY <1>1, <1>2

\* The event comes first.
LEMMA RevealAuditInv ==
    ASSUME SecretsInv, NEW r \in Recs, NEW k \in Keys, RevealAudit(r, k) PROVE SecretsInv'
  <1> USE DEF SecretsInv
  <1>1. SecretsTypeOK'
    BY DEF SecretsTypeOK, RevealAudit
  <1>2. (RingInv /\ DiskInv /\ PlanInv /\ SealInv /\ MemInv)'
    BY DEF RevealAudit, RingInv, GoodRing, DiskInv, PlanInv, SealInv, MemInv
  <1>3. disk[r] # Missing
    BY DEF RevealAudit, containsSecretKey, MemInv
  <1>4. ShownInv'
    BY <1>3 DEF RevealAudit, ShownInv
  <1> QED BY <1>1, <1>2, <1>4

\* The answer of a read-back has its event.
LEMMA RevealAnswerInv ==
    ASSUME SecretsInv, NEW v \in reveal, RevealAnswer(v) PROVE SecretsInv'
  <1> USE DEF SecretsInv
  <1>1. v \in Recs \X Keys
    BY DEF SecretsTypeOK
  <1>2. SecretsTypeOK'
    BY <1>1 DEF SecretsTypeOK, RevealAnswer
  <1>3. (RingInv /\ DiskInv /\ PlanInv /\ SealInv /\ MemInv)'
    BY DEF RevealAnswer, RingInv, GoodRing, DiskInv, PlanInv, SealInv, MemInv
  <1>4. ShownInv'
    BY <1>1 DEF RevealAnswer, ShownInv
  <1> QED BY <1>2, <1>3, <1>4

\* A step of nothing here.
LEMMA StutterInv == SecretsInv /\ UNCHANGED vars => SecretsInv'
  <1> SUFFICES ASSUME SecretsInv, UNCHANGED vars PROVE SecretsInv'
    OBVIOUS
  <1>1. UNCHANGED <<conf, up, ring, mem, disk, sweep, swept, reveal, audit, logs, shown>>
    BY DEF vars
  <1>2. SecretsTypeOK'
    BY <1>1 DEF SecretsInv, SecretsTypeOK
  <1>3. (RingInv /\ DiskInv)'
    BY <1>1 DEF SecretsInv, RingInv, GoodRing, DiskInv
  <1>4. (PlanInv /\ SealInv)'
    BY <1>1 DEF SecretsInv, PlanInv, SealInv, GoodRing
  <1>5. (MemInv /\ ShownInv)'
    BY <1>1 DEF SecretsInv, MemInv, ShownInv
  <1> QED BY <1>2, <1>3, <1>4, <1>5 DEF SecretsInv

-----------------------------------------------------------------------------
(* The theorems.                                                           *)

\* The invariant holds: over boots, crashes, saves, sweeps that end, fail or
\* overlap with saves, and answers of every kind.
THEOREM SecretsInvariant == Spec => []SecretsInv
  <1>1. Init => SecretsInv
    BY InitInv
  <1>2. SecretsInv /\ [Next]_vars => SecretsInv'
    <2> SUFFICES ASSUME SecretsInv, [Next]_vars PROVE SecretsInv'
      OBVIOUS
    <2>1. CASE Boot \/ Crash \/ AddVersion \/ DropVersions
      BY <2>1, BootInv, CrashInv, AddVersionInv, DropVersionsInv
    <2>2. CASE \E r \in Recs : Save(r) \/ SweepWrite(r)
      BY <2>2, SaveInv, SweepWriteInv
    <2>3. CASE \E r \in Recs : jobToResponse(r) \/ workflowToResponse(r)
      BY <2>3, ResponseInv DEF jobToResponse, workflowToResponse
    <2>4. CASE \E r \in Recs, secret \in SecretSets : Submit(r, secret)
      BY <2>4, SubmitInv
    <2>5. CASE SweepRead \/ SweepDone \/ SweepFails
      BY <2>5, SweepReadInv, SweepDoneInv, SweepFailsInv
    <2>6. CASE \E r \in JobRecs : GetJobLogs(r) \/ \E k \in Keys : RevealAudit(r, k) \/ StreamLogs(r, k)
      <3>1. JobRecs \subseteq Recs
        BY DEF Recs
      <3> QED BY <3>1, <2>6, GetJobLogsInv, RevealAuditInv, StreamLogsInv
    <2>7. CASE \E v \in reveal : RevealAnswer(v)
      BY <2>7, RevealAnswerInv
    <2>8. CASE UNCHANGED vars
      BY <2>8, StutterInv
    <2> QED BY <2>1, <2>2, <2>3, <2>4, <2>5, <2>6, <2>7, <2>8 DEF Next
  <1> QED BY <1>1, <1>2, PTL DEF Spec

\* persistence_encrypt.go: a record saved with a key configured keeps none of
\* its secret values in the clear, whatever sweeps write back later.
THEOREM SecretsStaySealed == Spec => []NoPlainSecret
  <1>1. SecretsInv => NoPlainSecret
    <2> SUFFICES ASSUME SecretsInv, NEW r \in Recs, disk[r].ringed
                 PROVE  disk[r].plain \cap disk[r].secret = {}
      BY DEF NoPlainSecret
    <2>1. Missing.plain = {}
      BY DEF Missing
    <2> QED BY <2>1 DEF SecretsInv, DiskInv, Whole, Kept
  <1> QED BY <1>1, SecretsInvariant, PTL

\* persistence_rotate.go, crypto.md: the next boot opens every record and finds
\* all of its keys, also after the old versions were dropped behind a sweep.
THEOREM RotationLosesNothing == Spec => []Recoverable
  <1>1. SecretsInv => Recoverable
    <2> SUFFICES ASSUME SecretsInv, NEW r \in Recs, disk[r] # Missing
                 PROVE  /\ decryptSecretsInto(disk[r], configured(conf))
                        /\ inMemoryForm(disk[r]).env = Keys
      BY DEF Recoverable
    <2>1. configured(conf) = conf
      BY ConfiguredIsConf DEF SecretsInv, SecretsTypeOK, RingInv, Rings
    <2>2. Kept(disk[r], conf.keks) /\ disk[r] \in DiskRecs
      BY DEF SecretsInv, DiskInv, Whole, SecretsTypeOK
    <2>3. inMemoryForm(disk[r]).env = Keys
      BY <2>2 DEF Kept, inMemoryForm
    <2>4. \A e \in disk[r].sealed : e[1] \notin disk[r].plain /\ e[2] \in conf.keks
      BY <2>2 DEF Kept, Sealed
    <2>5. disk[r].sealed = {} \/ conf.active # 0
      BY <2>4 DEF SecretsInv, RingInv, GoodRing
    <2> QED BY <2>1, <2>3, <2>4, <2>5 DEF decryptSecretsInto, CanDecrypt
  <1> QED BY <1>1, SecretsInvariant, PTL

\* handlers_admin.go, secret_env.go, scrub.go: no answer holds a secret value
\* without its secret_revealed event.
THEOREM AnswersAreAudited == Spec => []RevealedIsAudited
  <1>1. SecretsInv => RevealedIsAudited
    <2> SUFFICES ASSUME SecretsInv, NEW r \in Recs, NEW k \in disk[r].secret, <<r, k>> \in shown
                 PROVE  <<r, k>> \in audit
      BY DEF RevealedIsAudited
    <2>1. k \in Keys
      BY DEF SecretsInv, SecretsTypeOK, DiskRecs
    <2> QED BY <2>1 DEF SecretsInv, ShownInv
  <1> QED BY <1>1, SecretsInvariant, PTL

-----------------------------------------------------------------------------
(* Credentials: tokens.                                                    *)

\* The root tokens of any token file that still validate.
LiveRoots == published \cap jtis

\* Where the rotation stands says which token of the files may be alive: the
\* stored one at most, and none between its revocation and the next store.
RootInv ==
    /\ LiveRoots \subseteq {rootKey}
    /\ phase \in {"clear", "generate", "store"} => LiveRoots = {}
    /\ phase \in {"publish", "load", "up"} => root = rootKey /\ root \in Ids
    /\ phase = "store" => root \in Ids /\ claims[root] # None
    /\ phase = "revoke" => rootKey # None

\* A token that was stored, published or revoked has been minted, so its JTI
\* is not drawn again.
MintedInv ==
    /\ claims \in [Ids -> Claims \cup {None}] /\ jtis \subseteq Ids
    /\ rootKey \in Ids \cup {None}
    /\ rootKey # None => claims[rootKey] # None
    /\ published \subseteq Ids /\ \A t \in published : claims[t] # None
    /\ killed \subseteq Ids /\ \A t \in killed : claims[t] # None /\ t \notin jtis

TokensInv == MintedInv /\ RootInv

LEMMA TokensStart == CredentialsInit => TokensInv
  BY DEF CredentialsInit, TokensInv, MintedInv, RootInv, LiveRoots

\* A mint draws a JTI that nothing knows.
LEMMA MintKept ==
  ASSUME TokensInv, NEW t \in Ids, NEW c \in Claims, Minted(t, c),
         UNCHANGED <<rootKey, published, killed>>
  PROVE  /\ MintedInv' /\ LiveRoots' = LiveRoots /\ claims'[t] # None
         /\ \A u \in Ids : claims[u] # None => claims'[u] # None
  <1>1. /\ claims' = [claims EXCEPT ![t] = c] /\ jtis' = jtis \cup {t}
        /\ claims[t] = None /\ c # None
    BY CredentialsAssumption DEF Minted
  <1>2. t \notin published /\ t \notin killed /\ t # rootKey
    BY <1>1, CredentialsAssumption DEF TokensInv, MintedInv
  <1> QED
    BY <1>1, <1>2 DEF TokensInv, MintedInv, LiveRoots

LEMMA BootTokens == ASSUME TokensInv, Booting PROVE TokensInv'
  <1>1. CASE Start
    <2>1. UNCHANGED <<claims, jtis, rootKey, published, killed>>
      BY <1>1 DEF Start
    <2>2. MintedInv' /\ LiveRoots' = LiveRoots /\ (rootKey = None => LiveRoots = {})
      BY <2>1, CredentialsAssumption DEF TokensInv, MintedInv, RootInv, LiveRoots
    <2>3. \/ phase' = "generate" /\ rootKey = None
          \/ phase' = "revoke" /\ rootKey # None
          \/ phase' = "publish" /\ root' = rootKey /\ rootKey # None
      BY <1>1 DEF Start
    <2>4. rootKey # None => rootKey \in Ids
      BY DEF TokensInv, MintedInv
    <2>5. RootInv'
      <3>1. CASE phase' = "generate" /\ rootKey = None
        BY <2>1, <2>2, <3>1 DEF TokensInv, RootInv
      <3>2. CASE phase' = "revoke" /\ rootKey # None
        BY <2>1, <2>2, <3>2 DEF TokensInv, RootInv
      <3>3. CASE phase' = "publish" /\ root' = rootKey /\ rootKey # None
        BY <2>1, <2>2, <2>4, <3>3 DEF TokensInv, RootInv
      <3> QED
        BY <2>3, <3>1, <3>2, <3>3
    <2> QED
      BY <2>2, <2>5 DEF TokensInv
  <1>2. CASE RotateRevoke
    BY <1>2 DEF RotateRevoke, ValidToken, TokensInv, MintedInv, RootInv, LiveRoots
  <1>3. CASE RotateClear
    BY <1>3 DEF RotateClear, TokensInv, MintedInv, RootInv, LiveRoots
  <1>4. CASE RotateGenerate
    <2>1. PICK c : c = [role |-> "admin", cn |-> Blank, method |-> Blank]
      OBVIOUS
    <2>2. c \in Claims
      BY <2>1 DEF Claims
    <2>3. PICK t \in Ids : Minted(t, c) /\ root' = t
      BY <1>4, <2>1 DEF RotateGenerate
    <2>4. UNCHANGED <<rootKey, published, killed>> /\ phase = "generate" /\ phase' = "store"
      BY <1>4 DEF RotateGenerate
    <2>5. MintedInv' /\ LiveRoots' = LiveRoots /\ claims'[t] # None
      BY <2>2, <2>3, <2>4, MintKept
    <2> QED
      BY <2>3, <2>4, <2>5 DEF TokensInv, RootInv
  <1>5. CASE RotateStore
    BY <1>5 DEF RotateStore, TokensInv, MintedInv, RootInv, LiveRoots
  <1>6. CASE Publish
    BY <1>6, CredentialsAssumption DEF Publish, TokensInv, MintedInv, RootInv, LiveRoots
  <1>7. CASE LoadRevocations \/ LoadRevocationsFails
    BY <1>7 DEF LoadRevocations, LoadRevocationsFails, tokenVars, TokensInv, MintedInv, RootInv, LiveRoots
  <1> QED
    BY <1>1, <1>2, <1>3, <1>4, <1>5, <1>6, <1>7 DEF Booting

LEMMA ServeTokens ==
  ASSUME TokensInv, CoordinatorCrash \/ ExpireToken \/ IssueToken \/ RevokeToken \/ IssueOperatorCert
  PROVE  TokensInv'
  <1>1. CASE CoordinatorCrash
    BY <1>1 DEF CoordinatorCrash, TokensInv, MintedInv, RootInv, LiveRoots
  <1>2. CASE ExpireToken
    BY <1>2 DEF ExpireToken, TokensInv, MintedInv, RootInv, LiveRoots
  <1>3. CASE IssueToken
    <2>1. PICK t \in Ids, c \in Offered : Minted(t, c)
      BY <1>3 DEF IssueToken
    <2>2. UNCHANGED <<phase, rootKey, root, published, killed>> /\ c \in Claims
      BY <1>3, CredentialsAssumption DEF IssueToken
    <2>3. /\ MintedInv' /\ LiveRoots' = LiveRoots
          /\ \A u \in Ids : claims[u] # None => claims'[u] # None
      BY <2>1, <2>2, MintKept
    <2> QED
      BY <2>2, <2>3 DEF TokensInv, RootInv
  <1>4. CASE RevokeToken
    BY <1>4 DEF RevokeToken, TokensInv, MintedInv, RootInv, LiveRoots
  <1>5. CASE IssueOperatorCert
    BY <1>5 DEF IssueOperatorCert, tokenVars, TokensInv, MintedInv, RootInv, LiveRoots
  <1> QED
    BY <1>1, <1>2, <1>3, <1>4, <1>5

LEMMA RevokingTokens ==
  ASSUME TokensInv, NEW c \in Callers, Revoking(c)
  PROVE  TokensInv'
  <1>1. UNCHANGED <<phase, claims, jtis, rootKey, root, published, killed>>
    BY DEF Revoking, RevokeCheck, RevokePersist, RevokePersistFails, RevokeCache, RevokeAudit, tokenVars
  <1> QED
    BY <1>1 DEF TokensInv, MintedInv, RootInv, LiveRoots

LEMMA TokensStep == TokensInv /\ [CredentialsNext]_credentialVars => TokensInv'
  <1> SUFFICES ASSUME TokensInv, [CredentialsNext]_credentialVars PROVE TokensInv'
    OBVIOUS
  <1>1. CASE UNCHANGED credentialVars
    BY <1>1 DEF credentialVars, tokenVars, TokensInv, MintedInv, RootInv, LiveRoots
  <1> QED
    BY <1>1, BootTokens, ServeTokens, RevokingTokens DEF CredentialsNext

\* A token whose revocation was answered never validates again, and while the
\* coordinator serves, no root token but this boot's does, whatever step of a
\* rotation a crash cut off (RotateRootToken, handleRevokeToken).
THEOREM TokensStayDead == CredentialsSpec => []DeadTokensStayDead
  <1>1. TokensInv => DeadTokensStayDead
    BY DEF TokensInv, MintedInv, RootInv, LiveRoots, DeadTokensStayDead, ValidToken
  <1> QED
    BY <1>1, TokensStart, TokensStep, PTL DEF CredentialsSpec

-----------------------------------------------------------------------------
(* Credentials: revoked certificates.                                      *)

\* A handler has written the record before it fills the cache, and both
\* before it answers.
CallInv(k) ==
    /\ k \in [pc : {"idle", "persist", "cache", "audit"}, serial : Serials \cup {None},
              answer : Callers \cup {None}]
    /\ k.pc # "idle" => loaded /\ k.serial \in Serials
    /\ k.pc \in {"cache", "audit"} => onDisk[k.serial] # None
    /\ k.pc = "audit" => cache[k.serial] # None

\* What has been answered is on disk, and in the cache of a boot that loaded it.
RevokedInv ==
    /\ onDisk \in [Serials -> Callers \cup {None}]
    /\ cache \in [Serials -> Callers \cup {None}]
    /\ answers = [s \in Serials |-> answers[s]]
    /\ \A s \in Serials : cache[s] # None => onDisk[s] # None
    /\ \A s \in Serials : answers[s] # {} => onDisk[s] # None
    /\ loaded => \A s \in Serials : answers[s] # {} => cache[s] # None

CertsInv == RevokedInv /\ calls = [c \in Callers |-> calls[c]] /\ \A c \in Callers : CallInv(calls[c])

LEMMA NoCallOK == CallInv(NoCall) /\ CallInv(NoCall)' /\ NoCall.pc = "idle"
  BY DEF CallInv, NoCall

LEMMA CertsStart == CredentialsInit => CertsInv
  BY NoCallOK DEF CredentialsInit, CertsInv, RevokedInv

\* The handlers that are not in the step keep what they have.
LEMMA CallsKept ==
  ASSUME CertsInv, NEW c \in Callers, NEW k, calls' = [calls EXCEPT ![c] = k], CallInv(k)',
         loaded' = loaded,
         \A s \in Serials : /\ onDisk[s] # None => onDisk'[s] # None
                            /\ cache[s] # None => cache'[s] # None
  PROVE  calls' = [d \in Callers |-> calls'[d]] /\ \A d \in Callers : CallInv(calls[d])'
  <1>1. calls' = [d \in Callers |-> IF d = c THEN k ELSE calls[d]]
    BY DEF CertsInv
  <1>2. ASSUME NEW d \in Callers, d # c
        PROVE  CallInv(calls[d])'
    BY <1>1, <1>2 DEF CertsInv, CallInv
  <1>3. CallInv(calls[c])'
    BY <1>1
  <1> QED
    BY <1>1, <1>2, <1>3

LEMMA RevokingCerts ==
  ASSUME CertsInv, NEW c \in Callers, Revoking(c)
  PROVE  CertsInv'
  <1>1. loaded' = loaded /\ CallInv(calls[c])
    BY DEF Revoking, RevokeCheck, RevokePersist, RevokePersistFails, RevokeCache, RevokeAudit, CertsInv
  <1>2. CASE RevokeCheck(c)
    <2>1. PICK s \in Serials :
             calls' = [calls EXCEPT ![c] = [pc |-> IF cache[s] = None THEN "persist" ELSE "audit",
                                            serial |-> s, answer |-> cache[s]]]
      BY <1>2 DEF RevokeCheck
    <2>2. UNCHANGED <<onDisk, cache, answers, loaded>> /\ loaded
      BY <1>2 DEF RevokeCheck
    <2>3. PICK k : k = [pc |-> IF cache[s] = None THEN "persist" ELSE "audit",
                        serial |-> s, answer |-> cache[s]]
      OBVIOUS
    <2>4. CallInv(k)'
      BY <2>2, <2>3 DEF CallInv, CertsInv, RevokedInv
    <2> QED
      BY <2>1, <2>2, <2>3, <2>4, CallsKept DEF CertsInv, RevokedInv
  <1>3. CASE RevokePersist(c)
    <2>1. PICK s : s = calls[c].serial
      OBVIOUS
    <2>2. /\ onDisk' = [onDisk EXCEPT ![s] = c] /\ s \in Serials /\ loaded
          /\ UNCHANGED <<cache, answers, loaded>> /\ calls[c].pc = "persist"
      BY <1>1, <1>3, <2>1 DEF RevokePersist, CallInv
    <2>3. RevokedInv' /\ onDisk'[s] # None
          /\ \A u \in Serials : onDisk[u] # None => onDisk'[u] # None
      BY <2>2, CredentialsAssumption DEF CertsInv, RevokedInv
    <2>4. PICK k : k = [calls[c] EXCEPT !.pc = "cache"]
      OBVIOUS
    <2>5. k = [pc |-> "cache", serial |-> s, answer |-> calls[c].answer]
      BY <1>1, <2>1, <2>4 DEF CallInv
    <2>6. CallInv(k)'
      BY <1>1, <2>2, <2>3, <2>5 DEF CallInv
    <2>7. calls' = [calls EXCEPT ![c] = k]
      BY <1>3, <2>4 DEF RevokePersist
    <2> QED
      BY <2>2, <2>3, <2>6, <2>7, CallsKept DEF CertsInv
  <1>4. CASE RevokePersistFails(c)
    BY <1>4, NoCallOK, CallsKept DEF RevokePersistFails, CertsInv, RevokedInv
  <1>5. CASE RevokeCache(c)
    <2>1. PICK s : s = calls[c].serial
      OBVIOUS
    <2>2. PICK rec : rec = IF cache[s] = None THEN c ELSE cache[s]
      OBVIOUS
    <2>3. /\ cache' = [cache EXCEPT ![s] = rec]
          /\ UNCHANGED <<onDisk, answers, loaded>> /\ calls[c].pc = "cache"
      BY <1>5, <2>1, <2>2 DEF RevokeCache
    <2>4. s \in Serials /\ onDisk[s] # None /\ rec # None /\ rec \in Callers
      BY <1>1, <2>1, <2>2, <2>3, CredentialsAssumption DEF CallInv, CertsInv, RevokedInv
    <2>5. RevokedInv' /\ \A u \in Serials : cache[u] # None => cache'[u] # None
      BY <2>3, <2>4 DEF CertsInv, RevokedInv
    <2>6. PICK k : k = [calls[c] EXCEPT !.pc = "audit", !.answer = rec]
      OBVIOUS
    <2>7. k = [pc |-> "audit", serial |-> s, answer |-> rec]
      BY <1>1, <2>1, <2>6 DEF CallInv
    <2>8. cache'[s] # None /\ onDisk'[s] # None /\ loaded'
      BY <1>1, <2>3, <2>4 DEF CallInv, CertsInv, RevokedInv
    <2>9. CallInv(k)'
      BY <2>4, <2>7, <2>8 DEF CallInv
    <2>10. calls' = [calls EXCEPT ![c] = k]
      BY <1>5, <2>1, <2>2, <2>6 DEF RevokeCache
    <2> QED
      BY <2>3, <2>5, <2>9, <2>10, CallsKept DEF CertsInv
  <1>6. CASE RevokeAudit(c)
    <2>1. PICK s : s = calls[c].serial
      OBVIOUS
    <2>2. s \in Serials /\ onDisk[s] # None /\ cache[s] # None
      BY <1>1, <1>6, <2>1 DEF RevokeAudit, CallInv
    <2>3. /\ UNCHANGED <<onDisk, cache, loaded>> /\ calls' = [calls EXCEPT ![c] = NoCall]
          /\ \/ answers' = answers
             \/ answers' = [answers EXCEPT ![s] = @ \cup {calls[c].answer}]
      BY <1>6, <2>1 DEF RevokeAudit
    <2>4. RevokedInv'
      BY <2>2, <2>3 DEF CertsInv, RevokedInv
    <2> QED
      BY <2>3, <2>4, NoCallOK, CallsKept DEF CertsInv
  <1> QED
    BY <1>2, <1>3, <1>4, <1>5, <1>6 DEF Revoking

LEMMA CertsStep == CertsInv /\ [CredentialsNext]_credentialVars => CertsInv'
  <1> SUFFICES ASSUME CertsInv, [CredentialsNext]_credentialVars PROVE CertsInv'
    OBVIOUS
  <1>1. CASE UNCHANGED <<onDisk, cache, loaded, calls, answers>>
    BY <1>1 DEF CertsInv, RevokedInv, CallInv
  <1>2. CASE LoadRevocations
    BY <1>2 DEF LoadRevocations, CertsInv, RevokedInv, CallInv
  <1>3. CASE CoordinatorCrash
    <2>1. /\ calls' = [c \in Callers |-> NoCall] /\ cache' = [s \in Serials |-> None]
          /\ ~loaded' /\ onDisk' = onDisk /\ answers' = answers
      BY <1>3 DEF CoordinatorCrash
    <2>2. RevokedInv'
      BY <2>1 DEF CertsInv, RevokedInv
    <2> QED
      BY <2>1, <2>2, NoCallOK DEF CertsInv
  <1>4. CASE \E c \in Callers : Revoking(c)
    BY <1>4, RevokingCerts
  <1>5. ASSUME ~LoadRevocations, ~CoordinatorCrash, ~(\E c \in Callers : Revoking(c))
        PROVE  UNCHANGED <<onDisk, cache, loaded, calls, answers>>
    BY <1>5
    DEF CredentialsNext, Booting, Start, RotateRevoke, RotateClear, RotateGenerate, RotateStore,
        Publish, LoadRevocationsFails, ExpireToken, IssueToken, RevokeToken, IssueOperatorCert,
        credentialVars, certVars
  <1> QED
    BY <1>1, <1>2, <1>3, <1>4, <1>5

\* A certificate whose revocation was answered stamps no operator, and is on
\* the CRL, now and after every restart that loads the records
\* (BadgerRevocationStore.Revoke, NewBadgerRevocationStore, clientCertMiddleware).
THEOREM RevocationsHold == CredentialsSpec => []RevocationHolds
  <1>1. ASSUME NEW s \in Serials, cache[s] # None, NEW via \in {"tls", "proxySerial"}
        PROVE  clientCert([via |-> via, serial |-> s]) \notin OperatorCNs
    <2>1. PICK p : p = [via |-> via, serial |-> s]
      OBVIOUS
    <2>2. revoked(p)
      BY <1>1, <2>1 DEF revoked
    <2>3. clientCert(p) \in {Blank, "refused"}
      BY <2>2 DEF clientCert
    <2> QED
      BY <2>1, <2>3, CredentialsAssumption
  <1>2. CertsInv => RevocationHolds
    BY <1>1 DEF CertsInv, RevokedInv, RevocationHolds, CRL, List
  <1> QED
    BY <1>2, CertsStart, CertsStep, PTL DEF CredentialsSpec

=============================================================================
