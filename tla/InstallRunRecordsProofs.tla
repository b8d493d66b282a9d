----------------------- MODULE InstallRunRecordsProofs -----------------------
(* What InstallRun promises of the disk and the records, for any facets,    *)
(* commands and bounds: the journal leads back, the receipt is true and     *)
(* complete, and the three records change together.                         *)
EXTENDS InstallRunProofs

----------------------------------------------------------------------------
(* The journal leads back.                                                  *)

(* The journal leads back to the disk without the run, at one place.        *)
Traced(pl) ==
    \E m \in 0..Len(journal) :
        /\ pl \notin touched => m = 0
        /\ TrailFrom(pl, m)
        /\ EditedAfter(pl, m)

(* It does where a run has done nothing.                                    *)
LEMMA NoTrailYet ==
    ASSUME journal = <<>>, NEW pl, before[pl] = disk[pl], disk[pl] \in Held
    PROVE  Traced(pl)
<1>1. Len(journal) = 0 /\ 0..Len(journal) = {0}
  OBVIOUS
<1> DEFINE t == [i \in 0..0 |-> disk[pl]]
<1>2. TrailFrom(pl, 0)
  <2>1. t \in [0..0 -> Held] /\ t[0] = disk[pl]
    OBVIOUS
  <2> HIDE DEF t
  <2>2. Leads(t, pl, 0, 0)
    BY DEF Leads
  <2>3. \A i \in 0..0 : t[i] = before[pl]
    BY <2>1
  <2>4. QED
    BY <1>1, <2>1, <2>2, <2>3 DEF TrailFrom
<1>3. EditedAfter(pl, 0)
  <2>1. PICK h \in Held : h # before[pl]
    BY DEF Held, Absent, Foreign
  <2> DEFINE u == [i \in 0..0 |-> h]
  <2>2. u \in [0..0 -> Held] /\ u[0] # before[pl]
    BY <2>1
  <2> HIDE DEF u
  <2>3. Leads(u, pl, 0, 0)
    BY DEF Leads
  <2>4. QED
    BY <2>2, <2>3 DEF EditedAfter
<1>4. QED
  BY <1>1, <1>2, <1>3 DEF Traced

(* And where a step has left nothing done.                                  *)
LEMMA NoTrailNow ==
    ASSUME journal' = <<>>, NEW pl, before'[pl] = disk'[pl], disk'[pl] \in Held
    PROVE  Traced(pl)'
<1>1. Len(journal') = 0 /\ 0..Len(journal') = {0}
  OBVIOUS
<1>a. PICK g \in Held : g = disk'[pl]
  OBVIOUS
<1> DEFINE t == [i \in 0..0 |-> g]
<1>2. TrailFrom(pl, 0)'
  <2>1. t \in [0..0 -> Held] /\ t[0] = disk'[pl]
    BY <1>a
  <2> HIDE DEF t
  <2>2. Leads(t, pl, 0, 0)'
    BY DEF Leads
  <2>3. \A i \in 0..0 : t[i] = before'[pl]
    BY <2>1
  <2>4. QED
    BY <1>1, <2>1, <2>2, <2>3 DEF TrailFrom
<1>3. EditedAfter(pl, 0)'
  <2>1. PICK h \in Held : h # before'[pl]
    BY DEF Held, Absent, Foreign
  <2> DEFINE u == [i \in 0..0 |-> h]
  <2>2. u \in [0..0 -> Held] /\ u[0] # before'[pl]
    BY <2>1
  <2> HIDE DEF u
  <2>3. Leads(u, pl, 0, 0)'
    BY DEF Leads
  <2>4. QED
    BY <2>2, <2>3 DEF EditedAfter
<1>4. QED
  BY <1>1, <1>2, <1>3 DEF Traced

(* A step that changes neither the place nor the journal keeps it so.       *)
LEMMA TracedKept ==
    ASSUME NEW pl, journal' = journal, disk'[pl] = disk[pl], before'[pl] = before[pl],
           pl \in touched <=> pl \in touched', Traced(pl)
    PROVE  Traced(pl)'
<1>1. PICK m \in 0..Len(journal) : (pl \notin touched => m = 0) /\ TrailFrom(pl, m) /\ EditedAfter(pl, m)
  BY DEF Traced
<1>2. TrailFrom(pl, m)'
  BY <1>1 DEF TrailFrom, Leads, Changes
<1>3. EditedAfter(pl, m)'
  BY <1>1 DEF EditedAfter, Leads, Changes
<1>4. QED
  BY <1>1, <1>2, <1>3 DEF Traced

(* So does a batch,                                                         *)
LEMMA TracedExtended ==
    ASSUME StateTyped, NEW put, Written(put), before' = before, touched' = touched,
           NEW pl \in AllPlaces, Traced(pl)
    PROVE  Traced(pl)'
<1>0. PICK L \in Nat : L = Len(journal)
  BY LenProperties DEF StateTyped
<1>1. PICK m \in 0..L : (pl \notin touched => m = 0) /\ TrailFrom(pl, m) /\ EditedAfter(pl, m)
  BY <1>0 DEF Traced
<1>2. PICK t \in [m..L -> Held] :
        /\ Leads(t, pl, m, L)
        /\ \A i \in m..L : (\A j \in (m + 1)..i : ~ Changes(j, pl)) => t[i] = before[pl]
        /\ t[L] = disk[pl]
  BY <1>0, <1>1 DEF TrailFrom
<1>3. /\ L \in Nat /\ DOMAIN journal = 1..L /\ Len(journal') = L + 1
      /\ \A i \in 1..L : journal'[i] = journal[i]
      /\ journal'[L + 1].put = put
      /\ journal'[L + 1].was = [x \in DOMAIN put |-> disk[x]]
  BY <1>0, Appended DEF Written, StateTyped
<1>4. PICK h \in Held :
        h = disk'[pl] /\ h = IF pl \in DOMAIN put THEN put[pl] ELSE disk[pl]
  BY DEF Written, Apply, StateTyped, TypeOK, Held
<1>5. \A i \in 1..L : Changes(i, pl)' <=> Changes(i, pl)
  BY <1>3 DEF Changes
<1>6. Changes(L + 1, pl)' <=> pl \in DOMAIN put
  BY <1>3 DEF Changes
<1> DEFINE s == [i \in m..(L + 1) |-> IF i = L + 1 THEN h ELSE t[i]]
<1>7. s \in [m..(L + 1) -> Held] /\ s[L + 1] = h /\ \A i \in m..L : s[i] = t[i]
  BY <1>2, <1>3, <1>4
<1> HIDE DEF s
<1>8. Leads(s, pl, m, L + 1)'
  <2> SUFFICES ASSUME NEW i \in (m + 1)..(L + 1)
               PROVE  IF Changes(i, pl)' THEN journal'[i].was[pl] = s[i - 1] /\ journal'[i].put[pl] = s[i]
                                         ELSE s[i] = s[i - 1]
    BY DEF Leads
  <2>1. CASE i = L + 1
    BY <1>2, <1>3, <1>4, <1>6, <1>7, <2>1
  <2>2. CASE i \in (m + 1)..L
    <3>1. IF Changes(i, pl) THEN journal[i].was[pl] = t[i - 1] /\ journal[i].put[pl] = t[i]
                            ELSE t[i] = t[i - 1]
      BY <1>2, <2>2 DEF Leads
    <3>2. i \in 1..L /\ i - 1 \in m..L /\ i \in m..L
      BY <1>3, <2>2
    <3>3. QED
      BY <1>3, <1>5, <1>7, <3>1, <3>2
  <2>3. QED
    BY <1>3, <2>1, <2>2
<1>9. \A i \in m..(L + 1) : (\A j \in (m + 1)..i : ~ Changes(j, pl)') => s[i] = before'[pl]
  <2> SUFFICES ASSUME NEW i \in m..(L + 1), \A j \in (m + 1)..i : ~ Changes(j, pl)'
               PROVE  s[i] = before[pl]
    OBVIOUS
  <2>1. CASE i \in m..L
    <3>1. \A j \in (m + 1)..i : ~ Changes(j, pl)
      BY <1>3, <1>5, <2>1
    <3>2. QED
      BY <1>2, <1>7, <2>1, <3>1
  <2>2. CASE i = L + 1
    <3>1. \A j \in (m + 1)..L : ~ Changes(j, pl)
      BY <1>3, <1>5, <2>2
    <3>2. t[L] = before[pl]
      BY <1>2, <1>3, <3>1
    <3>3. pl \notin DOMAIN put
      BY <1>3, <1>6, <2>2
    <3>4. QED
      BY <1>2, <1>4, <1>7, <2>2, <3>2, <3>3
  <2>3. QED
    BY <1>3, <2>1, <2>2
<1>10. TrailFrom(pl, m)'
  BY <1>3, <1>4, <1>7, <1>8, <1>9 DEF TrailFrom
<1>11. EditedAfter(pl, m)'
  <2>1. PICK u \in [0..m -> Held] : Leads(u, pl, 0, m) /\ u[m] # before[pl]
    BY <1>1 DEF EditedAfter
  <2>2. \A i \in 1..m : i \in 1..L
    BY <1>3
  <2>3. Leads(u, pl, 0, m)'
    BY <1>3, <1>5, <2>1, <2>2 DEF Leads
  <2>4. QED
    BY <2>1, <2>3 DEF EditedAfter
<1>12. m \in 0..Len(journal') /\ (pl \notin touched' => m = 0)
  BY <1>1, <1>3
<1>13. QED
  BY <1>10, <1>11, <1>12 DEF Traced

(* a batch that is undone,                                                  *)
LEMMA TracedPopped ==
    ASSUME StateTyped, journal # <<>>, journal' = SubSeq(journal, 1, Len(journal) - 1),
           before' = before, touched' = touched, NEW pl \in AllPlaces, Traced(pl),
           \/ pl \notin DOMAIN journal[Len(journal)].put /\ disk'[pl] = disk[pl]
           \/ /\ pl \in DOMAIN journal[Len(journal)].put
              /\ disk[pl] = journal[Len(journal)].put[pl]
              /\ disk'[pl] = journal[Len(journal)].was[pl]
    PROVE  Traced(pl)'
<1>0. PICK L \in Nat \ {0} : L = Len(journal)
  BY Popped DEF StateTyped
<1>1. PICK m \in 0..L : (pl \notin touched => m = 0) /\ TrailFrom(pl, m) /\ EditedAfter(pl, m)
  BY <1>0 DEF Traced
<1>2. PICK t \in [m..L -> Held] :
        /\ Leads(t, pl, m, L)
        /\ \A i \in m..L : (\A j \in (m + 1)..i : ~ Changes(j, pl)) => t[i] = before[pl]
        /\ t[L] = disk[pl]
  BY <1>0, <1>1 DEF TrailFrom
<1>3. PICK u \in [0..m -> Held] : Leads(u, pl, 0, m) /\ u[m] # before[pl]
  BY <1>1 DEF EditedAfter
<1>4. /\ Len(journal') = L - 1
      /\ \A i \in 1..(L - 1) : journal'[i] = journal[i]
  BY <1>0, Popped DEF StateTyped
<1>5. \A i \in 1..(L - 1) : Changes(i, pl)' <=> Changes(i, pl)
  BY <1>4 DEF Changes
<1>6. Changes(L, pl) <=> pl \in DOMAIN journal[L].put
  BY DEF Changes
<1>7. CASE m \in 0..(L - 1)
  <2> DEFINE s == [i \in m..(L - 1) |-> t[i]]
  <2>1. s \in [m..(L - 1) -> Held] /\ \A i \in m..(L - 1) : s[i] = t[i]
    BY <1>2, <1>7
  <2> HIDE DEF s
  <2>2. Leads(s, pl, m, L - 1)'
    <3> SUFFICES ASSUME NEW i \in (m + 1)..(L - 1)
                 PROVE  IF Changes(i, pl)' THEN journal'[i].was[pl] = s[i - 1] /\ journal'[i].put[pl] = s[i]
                                           ELSE s[i] = s[i - 1]
      BY DEF Leads
    <3>1. i \in (m + 1)..L /\ i \in 1..(L - 1) /\ i - 1 \in m..(L - 1) /\ i \in m..(L - 1)
      BY <1>7
    <3>2. IF Changes(i, pl) THEN journal[i].was[pl] = t[i - 1] /\ journal[i].put[pl] = t[i]
                            ELSE t[i] = t[i - 1]
      BY <1>2, <3>1 DEF Leads
    <3>3. QED
      BY <1>4, <1>5, <2>1, <3>1, <3>2
  <2>3. \A i \in m..(L - 1) : (\A j \in (m + 1)..i : ~ Changes(j, pl)') => s[i] = before'[pl]
    <3> SUFFICES ASSUME NEW i \in m..(L - 1), \A j \in (m + 1)..i : ~ Changes(j, pl)'
                 PROVE  s[i] = before[pl]
      OBVIOUS
    <3>1. \A j \in (m + 1)..i : ~ Changes(j, pl)
      BY <1>5, <1>7
    <3>2. QED
      BY <1>2, <2>1, <3>1
  <2>4. s[L - 1] = disk'[pl]
    <3>1. IF Changes(L, pl) THEN journal[L].was[pl] = t[L - 1] /\ journal[L].put[pl] = t[L]
                            ELSE t[L] = t[L - 1]
      <4>1. L \in (m + 1)..L
        BY <1>7
      <4>2. QED
        BY <1>2, <4>1 DEF Leads
    <3>2. s[L - 1] = t[L - 1]
      BY <1>7, <2>1
    <3>3. QED
      BY <1>0, <1>2, <1>6, <3>1, <3>2
  <2>5. TrailFrom(pl, m)'
    BY <1>4, <2>1, <2>2, <2>3, <2>4 DEF TrailFrom
  <2>6. Leads(u, pl, 0, m)'
    BY <1>3, <1>4, <1>5, <1>7 DEF Leads
  <2>7. EditedAfter(pl, m)'
    BY <1>3, <2>6 DEF EditedAfter
  <2>8. QED
    BY <1>1, <1>4, <1>7, <2>5, <2>7 DEF Traced
<1>8. CASE m = L
  <2>1. disk[pl] = before[pl]
    BY <1>2, <1>8
  <2>2. IF Changes(L, pl) THEN journal[L].was[pl] = u[L - 1] /\ journal[L].put[pl] = u[L]
                          ELSE u[L] = u[L - 1]
    BY <1>3, <1>8 DEF Leads
  <2>3. ~ Changes(L, pl)
    BY <1>0, <1>3, <1>6, <1>8, <2>1, <2>2
  <2>4. disk'[pl] = disk[pl] /\ u[L - 1] = u[L]
    BY <1>0, <1>6, <2>2, <2>3
  <2>5. PICK h \in Held : h = disk[pl]
    BY <1>2
  <2> DEFINE s == [i \in (L - 1)..(L - 1) |-> h]
  <2>6. s \in [(L - 1)..(L - 1) -> Held] /\ s[L - 1] = h
    OBVIOUS
  <2> HIDE DEF s
  <2>7. Leads(s, pl, L - 1, L - 1)'
    BY DEF Leads
  <2>8. \A i \in (L - 1)..(L - 1) : s[i] = before[pl]
    BY <2>1, <2>5, <2>6
  <2>9. TrailFrom(pl, L - 1)'
    BY <1>4, <2>4, <2>5, <2>6, <2>7, <2>8 DEF TrailFrom
  <2> DEFINE v == [i \in 0..(L - 1) |-> u[i]]
  <2>10. v \in [0..(L - 1) -> Held] /\ \A i \in 0..(L - 1) : v[i] = u[i]
    BY <1>3, <1>8
  <2> HIDE DEF v
  <2>11. Leads(v, pl, 0, L - 1)'
    <3> SUFFICES ASSUME NEW i \in (0 + 1)..(L - 1)
                 PROVE  IF Changes(i, pl)' THEN journal'[i].was[pl] = v[i - 1] /\ journal'[i].put[pl] = v[i]
                                           ELSE v[i] = v[i - 1]
      BY DEF Leads
    <3>1. IF Changes(i, pl) THEN journal[i].was[pl] = u[i - 1] /\ journal[i].put[pl] = u[i]
                            ELSE u[i] = u[i - 1]
      <4>1. i \in (0 + 1)..m
        BY <1>8
      <4>2. QED
        BY <1>3, <4>1 DEF Leads
    <3>2. i - 1 \in 0..(L - 1) /\ i \in 0..(L - 1) /\ i \in 1..(L - 1)
      OBVIOUS
    <3>3. QED
      BY <1>4, <1>5, <2>10, <3>1, <3>2
  <2>12. EditedAfter(pl, L - 1)'
    BY <1>3, <1>8, <2>4, <2>10, <2>11 DEF EditedAfter
  <2>13. pl \in touched'
    BY <1>0, <1>1, <1>8
  <2>14. QED
    BY <1>4, <2>9, <2>12, <2>13 DEF Traced
<1>9. QED
  BY <1>7, <1>8

(* and the first change of others: the trail of what the run did before it  *)
(* ends elsewhere, and a new one begins.                                    *)
LEMMA TracedEdited ==
    ASSUME StateTyped, NEW pl \in AllPlaces, Traced(pl), pl \notin touched, pl \in touched',
           journal' = journal, disk'[pl] # disk[pl], disk'[pl] = before'[pl], disk'[pl] \in Held
    PROVE  Traced(pl)'
<1>0. PICK L \in Nat : L = Len(journal)
  BY LenProperties DEF StateTyped
<1>1. TrailFrom(pl, 0)
  BY <1>0 DEF Traced
<1>2. PICK t \in [0..L -> Held] : Leads(t, pl, 0, L) /\ t[L] = disk[pl]
  BY <1>0, <1>1 DEF TrailFrom
<1>3. EditedAfter(pl, L)'
  BY <1>0, <1>2 DEF EditedAfter, Leads, Changes
<1>4. PICK h \in Held : h = disk'[pl]
  OBVIOUS
<1> DEFINE s == [i \in L..L |-> h]
<1>5. s \in [L..L -> Held] /\ s[L] = h
  OBVIOUS
<1> HIDE DEF s
<1>6. Leads(s, pl, L, L)'
  BY DEF Leads
<1>7. \A i \in L..L : s[i] = before'[pl]
  BY <1>4, <1>5
<1>8. TrailFrom(pl, L)'
  BY <1>0, <1>4, <1>5, <1>6, <1>7 DEF TrailFrom
<1>9. QED
  BY <1>0, <1>3, <1>8 DEF Traced

(* Every step keeps the journal leading back.                               *)
LEMMA RetraceableKept ==
    ASSUME Sound, Retraceable, [Next]_vars
    PROVE  Retraceable'
<1>0. /\ disk \in [AllPlaces -> Held] /\ before \in [AllPlaces -> Held] /\ StateTyped
  BY DEF Sound, StateTyped, TypeOK, Held
<1>1. CASE AroundStep
  <2>1. UNCHANGED <<holder, step, journal, residue>>
    BY <1>1, Around
  <2>2. CASE UNCHANGED <<disk, touched, before>>
    <3> SUFFICES ASSUME step # "committed", NEW pl \in AllPlaces \ residue, Followed(pl)
                 PROVE  Traced(pl)'
      BY <2>1, <2>2 DEF Retraceable, Traced, Followed
    <3>1. Traced(pl)
      BY DEF Retraceable, Traced
    <3>2. QED
      BY <2>1, <2>2, <3>1, TracedKept
  <2>3. CASE \E x \in AllPlaces, what \in {Absent, Foreign} : EditPlace(x, what)
    <3>1. PICK x \in AllPlaces, what \in {Absent, Foreign} : EditPlace(x, what)
      BY <2>3
    <3>2. /\ disk' = [disk EXCEPT ![x] = what] /\ before' = [before EXCEPT ![x] = what]
          /\ touched' = IF holder = None THEN {} ELSE touched \cup {x}
          /\ edits < MaxEdits /\ disk[x] # what
      BY <3>1 DEF EditPlace, Elsewhere
    <3>3. CASE holder = None
      <4>1. step = "idle" /\ journal = <<>> /\ before = disk
        BY <3>3 DEF Sound, StateTyped, TypeOK, Calm
      <4>2. journal' = <<>> /\ before' = disk' /\ \A pl \in AllPlaces : disk'[pl] \in Held
        BY <1>0, <2>1, <3>2, <4>1 DEF Held
      <4> SUFFICES ASSUME NEW pl \in AllPlaces \ residue'
                   PROVE  Traced(pl)'
        BY DEF Retraceable, Traced
      <4>3. before'[pl] = disk'[pl] /\ disk'[pl] \in Held
        BY <4>2
      <4>4. QED
        BY <4>2, <4>3, NoTrailNow
    <3>4. CASE holder # None
      <4> SUFFICES ASSUME step # "committed", NEW pl \in AllPlaces \ residue, Followed(pl)'
                   PROVE  Traced(pl)'
        BY <2>1 DEF Retraceable, Traced
      <4>1. CASE pl # x
        <5>1. disk'[pl] = disk[pl] /\ before'[pl] = before[pl] /\ (pl \in touched <=> pl \in touched')
          BY <1>0, <3>2, <3>4, <4>1
        <5>2. Traced(pl)
          BY <5>1 DEF Retraceable, Traced, Followed
        <5>3. QED
          BY <2>1, <5>1, <5>2, TracedKept
      <4>2. CASE pl = x
        <5>1. MaxEdits <= 1 /\ pl \in touched'
          BY <3>2, <3>4, <4>2 DEF Followed
        <5>2. edits = 0
          BY <3>2, <5>1, BoundsAssumption DEF StateTyped, Sound
        <5>3. pl \notin touched
          BY <5>2 DEF Sound, Calm
        <5>4. Traced(pl)
          BY <5>3 DEF Retraceable, Traced, Followed
        <5>5. disk'[pl] # disk[pl] /\ disk'[pl] = before'[pl] /\ disk'[pl] \in Held
          BY <1>0, <3>2, <4>2 DEF Held
        <5>6. QED
          BY <1>0, <2>1, <5>1, <5>3, <5>4, <5>5, TracedEdited
      <4>3. QED
        BY <4>1, <4>2
    <3>5. QED
      BY <3>3, <3>4
  <2>4. QED
    BY <1>1, <2>2, <2>3, Around
<1>2. CASE WriteStep
  <2>1. /\ Doing /\ Writing /\ step' # "committed"
        /\ UNCHANGED <<disk, journal>> \/ \E put : Written(put)
    BY <1>2, Writes
  <2>2. residue' = residue /\ touched' = touched /\ before' = before /\ step # "committed"
    BY <2>1 DEF Writing, history, Doing
  <2> SUFFICES ASSUME NEW pl \in AllPlaces \ residue, Followed(pl)'
               PROVE  Traced(pl)'
    BY <2>2 DEF Retraceable, Traced
  <2>3. Traced(pl)
    BY <2>2 DEF Retraceable, Traced, Followed
  <2>4. CASE UNCHANGED <<disk, journal>>
    BY <2>2, <2>3, <2>4, TracedKept
  <2>5. CASE \E put : Written(put)
    BY <1>0, <2>2, <2>3, <2>5, TracedExtended
  <2>6. QED
    BY <2>1, <2>4, <2>5
<1>3. CASE (\E p \in Proc : \E c \in Requests(p) : Begin(p, c)) \/ Release \/ Crash
  <2>1. journal' = <<>> /\ before' = disk' /\ disk' = disk
    <3>1. CASE \E p \in Proc : \E c \in Requests(p) : Begin(p, c)
      <4>1. holder = None /\ journal' = journal /\ before' = disk /\ disk' = disk
        BY <3>1 DEF Begin, undo
      <4>2. journal = <<>>
        BY <4>1 DEF Sound, StateTyped, TypeOK
      <4>3. QED
        BY <4>1, <4>2
    <3>2. CASE Release \/ Crash
      BY <3>2, Ends DEF Leave
    <3>3. QED
      BY <1>3, <3>1, <3>2
  <2> SUFFICES ASSUME NEW pl \in AllPlaces \ residue'
               PROVE  Traced(pl)'
    BY DEF Retraceable, Traced
  <2>2. before'[pl] = disk'[pl] /\ disk'[pl] \in Held
    BY <1>0, <2>1
  <2>3. QED
    BY <2>1, <2>2, NoTrailNow
<1>4. CASE Resolve \/ Compose \/ PrepareServers \/ Consent \/ Stop \/ Undone
  <2>1. /\ step \notin {"committed"} /\ UNCHANGED <<disk, journal, residue, touched, before>>
    <3>1. CASE Resolve \/ Compose \/ PrepareServers
      BY <3>1, Deciding DEF ReadOnly, undo, history
    <3>2. CASE Consent
      BY <3>2, Decides
    <3>3. CASE Stop \/ Undone
      BY <3>3 DEF Stop, Undone, Writing, history, At
    <3>4. QED
      BY <1>4, <3>1, <3>2, <3>3
  <2> SUFFICES ASSUME NEW pl \in AllPlaces \ residue, Followed(pl)
               PROVE  Traced(pl)'
    BY <2>1 DEF Retraceable, Traced, Followed
  <2>2. Traced(pl)
    BY <2>1 DEF Retraceable, Traced
  <2>3. QED
    BY <2>1, <2>2, TracedKept
<1>5. CASE Commit \/ CommitFrozen
  BY <1>5, Commits DEF Retraceable
<1>6. CASE Undo
  <2> DEFINE last == journal[Len(journal)]
  <2>1. /\ step = "undoing" /\ UNCHANGED <<touched, before>>
        /\ journal # <<>> /\ journal' = SubSeq(journal, 1, Len(journal) - 1)
        /\ \/ /\ \A pl \in DOMAIN last.put : disk[pl] = last.put[pl]
              /\ disk' = [pl \in DOMAIN disk |-> IF pl \in DOMAIN last.was THEN last.was[pl] ELSE disk[pl]]
              /\ residue' = residue
           \/ residue' = residue \cup DOMAIN last.put /\ disk' = disk
    BY <1>6 DEF Undo, At, history
  <2>2. DOMAIN last.was = DOMAIN last.put
    <3>1. last \in Batch
      BY <2>1, Popped DEF StateTyped, Sound
    <3>2. PICK S \in SUBSET AllPlaces : last \in [was : [S -> Held], put : [S -> Held]]
      BY <3>1 DEF Batch
    <3>3. QED
      BY <3>2
  <2> SUFFICES ASSUME NEW pl \in AllPlaces \ residue', Followed(pl)'
               PROVE  Traced(pl)'
    BY DEF Retraceable, Traced
  <2>3. pl \notin residue /\ Followed(pl) /\ pl \in AllPlaces
    BY <2>1 DEF Followed
  <2>4. Traced(pl)
    BY <2>1, <2>3 DEF Retraceable, Traced
  <2>5. \/ pl \notin DOMAIN last.put /\ disk'[pl] = disk[pl]
        \/ /\ pl \in DOMAIN last.put /\ disk[pl] = last.put[pl] /\ disk'[pl] = last.was[pl]
    BY <1>0, <2>1, <2>2, <2>3
  <2>6. QED
    BY <1>0, <2>1, <2>3, <2>4, <2>5, TracedPopped
<1>7. QED
  BY <1>1, <1>2, <1>3, <1>4, <1>5, <1>6, Kinds

----------------------------------------------------------------------------
(* What a run has done.                                                     *)

(* A place that neither the run nor others have changed is as it was.       *)
LEMMA Unjournalled ==
    ASSUME Sound, Retraceable, step # "committed",
           NEW pl \in AllPlaces \ (Journalled \cup residue \cup touched)
    PROVE  disk[pl] = before[pl]
<1>0. PICK L \in Nat : L = Len(journal) /\ DOMAIN journal = 1..L
  BY LenProperties DEF Sound, StateTyped
<1>1. TrailFrom(pl, 0)
  BY DEF Retraceable, Followed
<1>2. PICK t \in [0..L -> Held] :
        /\ \A i \in 0..L : (\A j \in (0 + 1)..i : ~ Changes(j, pl)) => t[i] = before[pl]
        /\ t[L] = disk[pl]
  BY <1>0, <1>1 DEF TrailFrom
<1>3. ASSUME NEW j \in 1..L PROVE ~ Changes(j, pl)
  <2>1. journal[j] \in Batch
    BY <1>0, ElementOfSeq DEF Sound, StateTyped
  <2>2. PICK S \in SUBSET AllPlaces : journal[j] \in [was : [S -> Held], put : [S -> Held]]
    BY <2>1 DEF Batch
  <2>3. DOMAIN journal[j].was = DOMAIN journal[j].put
    BY <2>2
  <2>4. pl \notin DOMAIN journal[j].was
    BY <1>0 DEF Journalled
  <2>5. QED
    BY <2>3, <2>4 DEF Changes
<1>4. t[L] = before[pl]
  BY <1>2, <1>3
<1>5. QED
  BY <1>2, <1>4

(* The files of a plan do not share a place,                                *)
LEMMA OneFilePerPlace ==
    ASSUME Sound, Decided, NEW c \in Assets(Plan), NEW d \in Assets(Plan), Place(c) = Place(d)
    PROVE  c = d
<1>1. c.name \notin ServerName
  BY NamesAssumption DEF Assets
<1>2. Contested(RunContents, run.over) = {}
  BY DEF Sound, PlanSound, Plannable
<1>3. ~ Contend(c, d)
  BY <1>2 DEF Contested, Assets, Plan
<1>4. QED
  BY <1>1, <1>3 DEF Contend

(* and the servers of a place are one.                                      *)
LEMMA OneServerPerPlace ==
    ASSUME Sound, Decided, NEW c \in Servers(Plan), NEW d \in Servers(Plan), Place(c) = Place(d)
    PROVE  c.holds = d.holds
<1>1. Contested(RunContents, run.over) = {}
  BY DEF Sound, PlanSound, Plannable
<1>2. ~ Contend(c, d)
  BY <1>1 DEF Contested, Servers, Plan
<1>3. QED
  BY <1>2 DEF Contend

(* What the writing of an asset changes.                                    *)
LEMMA AssetWritten ==
    ASSUME Sound, Doing, step = "write", NEW c \in towrite, NEW found, Write(c, found),
           found = disk[Place(c)] \/ Place(c) \in touched
    PROVE  /\ \A x \in AllPlaces : disk'[x] = disk[x] \/ x = Place(c)
           /\ disk'[Place(c)] = c.holds \/ Place(c) \in touched
           /\ towrite' = towrite \ {c} /\ todelete' = todelete /\ step' = step
           /\ c \in Assets(Plan) /\ ~ run.refined /\ Place(c) \in FilePlaces
<1>0. /\ DOMAIN disk = AllPlaces /\ holder # None /\ Decided
  BY DEF Sound, StateTyped, TypeOK, Doing, Decided
<1>1. c \in Assets(Plan) /\ ~ run.refined
  BY DEF Sound, WorkLeft
<1>2. Place(c) \in FilePlaces /\ Place(c) \in AllPlaces
  BY <1>0, <1>1, PlanAre DEF Assets, Sound
<1>3. /\ towrite' = towrite \ {c} /\ todelete' = todelete /\ step' = step
      /\ \/ found = c.holds /\ disk' = disk
         \/ Apply([x \in {Place(c)} |-> c.holds])
  BY DEF Write
<1>4. CASE found = c.holds /\ disk' = disk
  BY <1>1, <1>2, <1>3, <1>4
<1>5. CASE Apply([x \in {Place(c)} |-> c.holds])
  <2>1. disk' = [x \in DOMAIN disk |-> IF x \in {Place(c)} THEN c.holds ELSE disk[x]]
    BY <1>5 DEF Apply
  <2>2. QED
    BY <1>0, <1>1, <1>2, <1>3, <2>1
<1>6. QED
  BY <1>3, <1>4, <1>5

(* An asset that is written is there; the others stay.                      *)
LEMMA WorkDoneByAsset ==
    ASSUME Sound, WorkDone, (\E c \in towrite : WriteAsset(c)) \/ TakeOver
    PROVE  WorkDone'
<1>1. /\ step = "write" /\ Doing /\ Decided /\ holder # None
      /\ UNCHANGED <<run, touched, before>>
  BY DEF WriteAsset, TakeOver, Write, At, Writing, history, Doing, Decided
<1>2. \E c \in towrite : \E found :
         Write(c, found) /\ (found = disk[Place(c)] \/ Place(c) \in touched)
  BY <1>1 DEF WriteAsset, TakeOver, Sound, DisclosureKept
<1>3. PICK c \in towrite : \E found :
         Write(c, found) /\ (found = disk[Place(c)] \/ Place(c) \in touched)
  BY <1>2
<1>4. /\ \A x \in AllPlaces : disk'[x] = disk[x] \/ x = Place(c)
      /\ disk'[Place(c)] = c.holds \/ Place(c) \in touched
      /\ towrite' = towrite \ {c} /\ todelete' = todelete /\ step' = step
      /\ c \in Assets(Plan) /\ ~ run.refined /\ Place(c) \in FilePlaces
  BY <1>1, <1>3, AssetWritten
<1>5. /\ Plan' = Plan /\ ObsoleteFiles' = ObsoleteFiles
      /\ ServersAtStake' = ServersAtStake /\ Reconciled' = Reconciled
  BY <1>1, RunFrame
<1>6. Place(c) \in WantedFiles /\ Place(c) \notin ObsoleteFiles /\ Place(c) \in Reconciled
  BY <1>4 DEF WantedFiles, Places, ObsoleteFiles, Reconciled
<1>7. ObsoleteFiles \subseteq AllPlaces
  BY <1>1, WantedHolds DEF Sound, AllPlaces
<1>8. \A pl \in ObsoleteFiles \ todelete : disk'[pl] = Absent \/ pl \in touched
  BY <1>1, <1>4, <1>6, <1>7 DEF WorkDone
<1>9. ASSUME NEW d \in Assets(Plan) \ towrite'
      PROVE  disk'[Place(d)] = d.holds \/ Place(d) \in touched
  <2>1. CASE d = c
    BY <1>4, <2>1
  <2>2. CASE d # c
    <3>1. Place(d) # Place(c)
      BY <1>1, <1>4, <2>2, OneFilePerPlace
    <3>2. Place(d) \in AllPlaces
      BY <1>1, PlanAre DEF Assets, Sound
    <3>3. disk[Place(d)] = d.holds \/ Place(d) \in touched
      BY <1>1, <1>4, <2>2 DEF WorkDone
    <3>4. QED
      BY <1>4, <3>1, <3>2, <3>3
  <2>3. QED
    BY <2>1, <2>2
<1>10. \A pl \in AllPlaces \ (Reconciled \cup touched) : disk'[pl] = before[pl]
  BY <1>1, <1>4, <1>6 DEF WorkDone
<1>11. QED
  BY <1>1, <1>4, <1>5, <1>8, <1>9, <1>10 DEF WorkDone

(* An obsolete file that is deleted is gone; the others stay.               *)
LEMMA WorkDoneByDeletion ==
    ASSUME Sound, WorkDone, NEW gone \in todelete, DeleteObsolete(gone)
    PROVE  WorkDone'
<1>1. /\ step = "delete" /\ Doing /\ Decided /\ holder # None /\ step' = step
      /\ UNCHANGED <<run, touched, before, towrite>> /\ todelete' = todelete \ {gone}
  BY DEF DeleteObsolete, At, Writing, history, Doing, Decided
<1>2. DOMAIN disk = AllPlaces
  BY DEF Sound, StateTyped, TypeOK
<1>3. gone \in ObsoleteFiles /\ gone \in AllPlaces /\ gone \in Reconciled /\ gone \notin WantedFiles
  BY <1>1, WantedHolds DEF Sound, WorkLeft, AllPlaces, Reconciled, ObsoleteFiles
<1>4. /\ \A x \in AllPlaces : disk'[x] = disk[x] \/ x = gone
      /\ disk'[gone] = Absent
  BY <1>2, <1>3 DEF DeleteObsolete, Apply
<1>5. /\ Plan' = Plan /\ ObsoleteFiles' = ObsoleteFiles
      /\ ServersAtStake' = ServersAtStake /\ Reconciled' = Reconciled
  BY <1>1, RunFrame
<1>6. ObsoleteFiles \subseteq AllPlaces
  BY <1>1, WantedHolds DEF Sound, AllPlaces
<1>7. \A pl \in ObsoleteFiles \ todelete' : disk'[pl] = Absent \/ pl \in touched
  BY <1>1, <1>4, <1>6 DEF WorkDone
<1>8. ASSUME ~ run.refined, NEW d \in Assets(Plan) \ towrite
      PROVE  disk'[Place(d)] = d.holds \/ Place(d) \in touched
  <2>1. Place(d) \in AllPlaces
    BY <1>1, PlanAre DEF Assets, Sound
  <2>2. Place(d) # gone
    BY <1>3 DEF WantedFiles, Places
  <2>3. QED
    BY <1>1, <1>4, <1>8, <2>1, <2>2 DEF WorkDone
<1>9. \A pl \in AllPlaces \ (Reconciled \cup touched) : disk'[pl] = before[pl]
  BY <1>1, <1>3, <1>4 DEF WorkDone
<1>10. QED
  BY <1>1, <1>5, <1>7, <1>8, <1>9 DEF WorkDone

(* The servers are as planned; the files stay.                              *)
LEMMA WorkDoneByServers ==
    ASSUME Sound, WorkDone, ApplyServers
    PROVE  WorkDone'
<1> DEFINE put == [pl \in ServerPlaces |->
                      IF pl \in ServersAtStake THEN ServerTarget(pl) ELSE disk[pl]]
<1>1. /\ step = "write" /\ Doing /\ Decided /\ holder # None /\ step' = "commit"
      /\ UNCHANGED <<run, touched, before, towrite, todelete>>
  BY DEF ApplyServers, At, Writing, work, history, Doing, Decided
<1>2. DOMAIN disk = AllPlaces
  BY DEF Sound, StateTyped, TypeOK
<1>3. ServersAtStake \subseteq ServerPlaces /\ ServersAtStake \subseteq Reconciled
      /\ ServerPlaces \subseteq AllPlaces
  BY <1>1, WantedHolds DEF Sound, Reconciled, AllPlaces
<1>4. \/ disk' = disk /\ \A pl \in ServersAtStake : disk[pl] = ServerTarget(pl)
      \/ Apply(put)
  BY DEF ApplyServers
<1>5. /\ \A x \in AllPlaces : disk'[x] = disk[x] \/ x \in ServersAtStake
      /\ \A x \in ServersAtStake : disk'[x] = ServerTarget(x)
  <2>1. CASE disk' = disk /\ \A pl \in ServersAtStake : disk[pl] = ServerTarget(pl)
    BY <2>1
  <2>2. CASE Apply(put)
    <3>1. disk' = [x \in AllPlaces |-> IF x \in ServerPlaces THEN put[x] ELSE disk[x]]
      BY <1>2, <2>2 DEF Apply
    <3>2. QED
      BY <1>3, <3>1
  <2>3. QED
    BY <1>4, <2>1, <2>2
<1> HIDE DEF put
<1>6. /\ Plan' = Plan /\ ObsoleteFiles' = ObsoleteFiles /\ WantedServers' = WantedServers
      /\ ServersAtStake' = ServersAtStake /\ Reconciled' = Reconciled
  BY <1>1, RunFrame
<1>7. \A x \in ServersAtStake : ServerTarget(x)' = ServerTarget(x)
  BY <1>6 DEF ServerTarget
<1>8. \A x \in FilePlaces : x \notin ServersAtStake /\ x \in AllPlaces
  BY <1>3, Disjoint DEF AllPlaces
<1>9. \A pl \in ObsoleteFiles \ todelete : disk'[pl] = Absent \/ pl \in touched
  <2>1. ObsoleteFiles \subseteq FilePlaces
    BY <1>1, WantedHolds DEF Sound
  <2>2. QED
    BY <1>1, <1>5, <1>8, <2>1 DEF WorkDone
<1>10. ASSUME ~ run.refined, NEW d \in Assets(Plan) \ towrite
      PROVE  disk'[Place(d)] = d.holds \/ Place(d) \in touched
  <2>1. Place(d) \in FilePlaces
    BY <1>1, PlanAre DEF Assets, Sound
  <2>2. QED
    BY <1>1, <1>5, <1>8, <1>10, <2>1 DEF WorkDone
<1>11. \A pl \in AllPlaces \ (Reconciled \cup touched) : disk'[pl] = before[pl]
  BY <1>1, <1>3, <1>5 DEF WorkDone
<1>12. QED
  BY <1>1, <1>5, <1>6, <1>7, <1>9, <1>10, <1>11 DEF WorkDone

(* What a run has done stays done.                                          *)
LEMMA WorkDoneKept ==
    ASSUME Sound, Retraceable, WorkDone, [Next]_vars
    PROVE  WorkDone'
<1>1. CASE AroundStep
  <2>1. UNCHANGED <<holder, step, run, todelete, towrite>>
    BY <1>1, Around DEF work
  <2>2. /\ Plan' = Plan /\ ObsoleteFiles' = ObsoleteFiles /\ WantedServers' = WantedServers
        /\ ServersAtStake' = ServersAtStake /\ Reconciled' = Reconciled
    BY <2>1, RunFrame
  <2>3. \A x : ServerTarget(x)' = ServerTarget(x)
    BY <2>2 DEF ServerTarget
  <2>4. CASE UNCHANGED <<disk, touched, before>>
    BY <2>1, <2>2, <2>3, <2>4 DEF WorkDone, Doing
  <2>5. CASE \E pl \in AllPlaces, what \in {Absent, Foreign} : EditPlace(pl, what)
    <3> SUFFICES ASSUME Doing PROVE WorkDone'
      BY <2>1 DEF WorkDone, Doing
    <3>1. PICK pl \in AllPlaces, what \in {Absent, Foreign} : EditPlace(pl, what)
      BY <2>5
    <3>2. /\ disk' = [disk EXCEPT ![pl] = what] /\ before' = [before EXCEPT ![pl] = what]
          /\ touched' = touched \cup {pl}
      BY <3>1 DEF EditPlace, Sound, StateTyped, TypeOK, Doing
    <3>3. /\ \A x : disk'[x] = disk[x] \/ x \in touched'
          /\ \A x : before'[x] = before[x] \/ x \in touched'
          /\ touched \subseteq touched'
      BY <3>2 DEF Sound, StateTyped, TypeOK
    <3>4. QED
      BY <2>1, <2>2, <2>3, <3>3 DEF WorkDone
  <2>6. QED
    BY <1>1, <2>4, <2>5, Around
<1>2. CASE (\E c \in towrite : WriteAsset(c)) \/ TakeOver
  BY <1>2, WorkDoneByAsset
<1>3. CASE \E pl \in todelete : DeleteObsolete(pl)
  BY <1>3, WorkDoneByDeletion
<1>4. CASE ApplyServers
  BY <1>4, WorkDoneByServers
<1>5. CASE StartWriting \/ \E c \in towrite : AskTakeover(c)
  <2>1. UNCHANGED <<run, disk, todelete, towrite, touched, before>> /\ Doing /\ step' = "write"
    BY <1>5 DEF StartWriting, AskTakeover, At, Writing, work, history, Doing
  <2>2. /\ Plan' = Plan /\ ObsoleteFiles' = ObsoleteFiles /\ Reconciled' = Reconciled
    BY <2>1, RunFrame
  <2>3. QED
    BY <2>1, <2>2 DEF WorkDone
<1>6. CASE Consent
  <2>1. /\ step = "consent" /\ step' = "delete" /\ todelete' = ObsoleteFiles
        /\ towrite' = (IF run.refined THEN {} ELSE Assets(Plan))
        /\ UNCHANGED <<run, disk, touched, before>>
    BY <1>6, Decides
  <2>2. /\ Plan' = Plan /\ ObsoleteFiles' = ObsoleteFiles /\ Reconciled' = Reconciled
    BY <2>1, RunFrame
  <2>3. Journalled = {} /\ residue = {}
    BY <2>1 DEF Sound, Calm, Journalled
  <2>4. \A pl \in AllPlaces \ (Reconciled \cup touched) : disk[pl] = before[pl]
    BY <2>1, <2>3, Unjournalled
  <2>5. QED
    BY <2>1, <2>2, <2>4 DEF WorkDone
<1>7. CASE \E p \in Proc : \E c \in Requests(p) : Begin(p, c)
  <2>1. step' \in {"prepare", "resolve"}
    BY <1>7 DEF Begin
  <2>2. QED
    BY <2>1 DEF WorkDone, Doing
<1>8. CASE Resolve \/ Compose \/ PrepareServers
  BY <1>8, Deciding DEF WorkDone, Doing
<1>9. CASE Commit \/ CommitFrozen
  BY <1>9, Commits DEF WorkDone, Doing
<1>10. CASE Stop \/ Undone \/ Undo
  <2>1. step' \in {"undoing", "failed"}
    BY <1>10 DEF Stop, Undone, Undo, At
  <2>2. QED
    BY <2>1 DEF WorkDone, Doing
<1>11. CASE Release \/ Crash
  BY <1>11, Ends DEF Leave, WorkDone, Doing
<1>12. QED
  BY <1>1, <1>2, <1>3, <1>4, <1>5, <1>6, <1>7, <1>8, <1>9, <1>10, <1>11, Kinds DEF WriteStep

----------------------------------------------------------------------------
(* The receipt is true and complete.                                        *)

(* What is carried forward is wanted, so the run has not touched it.        *)
LEMMA CarriedArePlanned ==
    ASSUME Sound, Decided, holder # None, run.refined, NEW c \in Claims(NewReceipt)
    PROVE  c \in Claims(saw.receipt) /\ Place(c) \in WantedFiles \cup WantedServers
<1>1. /\ c \in Claims(saw.receipt) /\ c.facet \in DOMAIN run.want
      /\ c.name \in ServerName \cup (DOMAIN saw.lockfile.facets[c.facet].as
                                       \ OmittedIn(saw.lockfile.facets[c.facet]))
  BY CarriedClaims DEF Sound
<1>2. PICK f \in DOMAIN saw.receipt.facets :
         \E n \in DOMAIN saw.receipt.facets[f].as \cap Authority(saw.receipt) : c = ClaimOf(saw.receipt, f, n)
  BY <1>1, ClaimsAre
<1>3. PICK n \in DOMAIN saw.receipt.facets[f].as : c = ClaimOf(saw.receipt, f, n)
  BY <1>2
<1>4. c.facet = f /\ c.name = n /\ c.as = saw.receipt.facets[f].as[n]
  BY <1>3 DEF ClaimOf
<1> DEFINE entry == saw.lockfile.facets[f]
<1>5. /\ Refinable(run.want, saw.lockfile, saw.receipt) /\ run.over = Overrides(run.want)
      /\ DOMAIN entry.as = DOMAIN entry.holds
      /\ LockfileTyped(saw.lockfile)
  <2>1. Refinable(run.want, saw.lockfile, saw.receipt) /\ run.over = Overrides(run.want)
    BY DEF Sound, GatesPassed
  <2>2. f \in DOMAIN saw.lockfile.facets
    BY <1>1, <1>4, <2>1 DEF Refinable
  <2>3. QED
    BY <2>1, <2>2 DEF Sound, RunTyped, LockfileTyped
<1>6. Witnessed(f, saw.receipt.facets[f], entry) /\ IntentRecorded(saw.lockfile.facets, run.over, DOMAIN run.want)
  BY <1>1, <1>4, <1>5 DEF Refinable
<1>7. n \in DOMAIN entry.as \ OmittedIn(entry)
  BY <1>1, <1>3, <1>4, <1>6 DEF Witnessed
<1>8. saw.receipt.facets[f].as[n] = entry.as[n] /\ entry.as[n] # "omitted"
  BY <1>6, <1>7 DEF Witnessed, OmittedIn
<1>9. Intent(run.over, f, n) = entry.as[n] /\ n \in DOMAIN entry.holds
  BY <1>1, <1>4, <1>5, <1>6, <1>7 DEF IntentRecorded
<1>10. /\ DOMAIN RunContents = DOMAIN run.want
       /\ RunContents[f] = entry.holds
  BY <1>1, <1>4, RunContentsTyped DEF Sound
<1> DEFINE d == Claim(RunContents, run.over, f, n)
<1>11. d \in Plan
  BY <1>1, <1>4, <1>8, <1>9, <1>10, MaterializedAre DEF Plan, Claim
<1>12. d.name = c.name /\ d.as = c.as
  BY <1>4, <1>8, <1>9 DEF Claim
<1>13. Place(d) = Place(c)
  BY <1>12 DEF Place
<1>14. d.name \in Name
  BY <1>11, PlanAre DEF Sound
<1>15. QED
  BY <1>1, <1>11, <1>13, <1>14 DEF WantedFiles, WantedServers, Places, Assets, Servers, Name

(* What stays wanted is carried forward.                                    *)
LEMMA PlannedAreCarried ==
    ASSUME Sound, Decided, holder # None, run.refined, NEW d \in Plan
    PROVE  Place(d) \in Owned(NewReceipt)
<1>1. /\ d.facet \in DOMAIN run.want /\ d.name \in DOMAIN RunContents[d.facet]
      /\ d.as = Intent(run.over, d.facet, d.name) /\ d.as # "omitted" /\ d.name \in Name
  BY PlanAre DEF Sound
<1> DEFINE f == d.facet
           n == d.name
           entry == saw.lockfile.facets[f]
<1>2. RunContents[f] = entry.holds
  BY <1>1, RunContentsTyped DEF Sound
<1>3. Refinable(run.want, saw.lockfile, saw.receipt) /\ run.over = Overrides(run.want)
  BY DEF Sound, GatesPassed
<1>4. f \in DOMAIN saw.lockfile.facets /\ f \in DOMAIN saw.receipt.facets /\ saw.receipt.kind = "loaded"
  BY <1>1, <1>3 DEF Refinable
<1>5. DOMAIN entry.as = DOMAIN entry.holds
  BY <1>4 DEF Sound, RunTyped, LockfileTyped
<1>6. Witnessed(f, saw.receipt.facets[f], entry) /\ IntentRecorded(saw.lockfile.facets, run.over, DOMAIN run.want)
  BY <1>1, <1>3 DEF Refinable
<1>7. d.as = entry.as[n] /\ n \in DOMAIN entry.as
  BY <1>1, <1>2, <1>5, <1>6 DEF IntentRecorded
<1>8. n \in DOMAIN entry.as \ OmittedIn(entry)
  BY <1>1, <1>7 DEF OmittedIn
<1>9. n \in DOMAIN saw.receipt.facets[f].as /\ saw.receipt.facets[f].as[n] = d.as
  BY <1>6, <1>7, <1>8 DEF Witnessed
<1>10. n \in Authority(saw.receipt)
  BY <1>1, <1>4 DEF Authority, Name
<1> DEFINE c == ClaimOf(saw.receipt, f, n)
<1>11. c \in Claims(saw.receipt)
  BY <1>4, <1>9, <1>10, ClaimsAre
<1>12. c.facet = f /\ c.name = n /\ c.as = d.as
  BY <1>9 DEF ClaimOf
<1>13. c \in Claims(NewReceipt)
  BY <1>1, <1>8, <1>11, <1>12, CarriedClaims DEF Sound
<1>14. Place(c) = Place(d)
  BY <1>12 DEF Place
<1>15. QED
  BY <1>13, <1>14 DEF Owned, Places

(* What a new receipt claims is on disk.                                    *)
LEMMA RecordedIsTrue ==
    ASSUME Sound, WorkDone, ReceiptSound, step = "commit", receipt = saw.receipt,
           NEW c \in Claims(NewReceipt)
    PROVE  disk[Place(c)] = c.holds \/ Place(c) \in (stray \ Reconciled) \cup touched
<1>0. Doing /\ Decided /\ holder # None
  BY DEF Doing, Decided, Sound, StateTyped, TypeOK
<1>1. CASE run.refined
  <2>1. c \in Claims(saw.receipt) /\ Place(c) \in WantedFiles \cup WantedServers
    BY <1>0, <1>1, CarriedArePlanned
  <2>2. WantedFiles \subseteq FilePlaces /\ WantedServers \subseteq ServerPlaces
        /\ ObsoleteFiles \subseteq FilePlaces /\ ServersAtStake \subseteq ServerPlaces
    BY <1>0, WantedHolds DEF Sound
  <2>3. Place(c) \notin Reconciled
    BY <1>1, <2>1, <2>2, Disjoint DEF Reconciled, ObsoleteFiles, ServersAtStake
  <2>4. before[Place(c)] = c.holds \/ Place(c) \in stray
    BY <2>1 DEF ReceiptSound, Base
  <2>5. Place(c) \in AllPlaces
    BY <2>1, <2>2 DEF AllPlaces
  <2>6. disk[Place(c)] = before[Place(c)] \/ Place(c) \in touched
    BY <1>0, <2>3, <2>5 DEF WorkDone
  <2>7. QED
    BY <2>3, <2>4, <2>6
<1>2. CASE ~ run.refined
  <2>1. c \in Plan
    BY <1>0, <1>2, NewReceiptClaims DEF Sound
  <2>2. c.name \in Name
    BY <1>0, <2>1, PlanAre DEF Sound
  <2>3. CASE c \in Assets(Plan)
    BY <1>0, <1>2, <2>3 DEF WorkDone, Sound, WorkLeft
  <2>4. CASE c \in Servers(Plan)
    <3>1. Place(c) \in WantedServers /\ Place(c) \in ServersAtStake
      BY <1>2, <2>4 DEF WantedServers, Places, ServersAtStake
    <3>2. PICK d \in Servers(Plan) : Place(d) = Place(c) /\ WantedAt(Servers(Plan), Place(c)) = d.holds
      BY <2>4 DEF WantedAt
    <3>3. ServerTarget(Place(c)) = c.holds
      BY <1>0, <2>4, <3>1, <3>2, OneServerPerPlace DEF ServerTarget
    <3>4. QED
      BY <1>0, <3>1, <3>3 DEF WorkDone
  <2>5. QED
    BY <2>1, <2>2, <2>3, <2>4 DEF Assets, Servers, Name
<1>3. QED
  BY <1>1, <1>2

(* What a facet has brought to the disk a new receipt claims.               *)
LEMMA RecordedIsComplete ==
    ASSUME Sound, WorkDone, ReceiptSound, step = "commit", receipt = saw.receipt,
           NEW pl \in AllPlaces, Ours(disk[pl])
    PROVE  pl \in Owned(NewReceipt) \cup (stray \ Reconciled) \cup touched
<1>0. Doing /\ Decided /\ holder # None
  BY DEF Doing, Decided, Sound, StateTyped, TypeOK
<1> SUFFICES ASSUME pl \notin touched
             PROVE  pl \in Owned(NewReceipt) \cup (stray \ Reconciled)
  OBVIOUS
<1>1. ASSUME NEW d \in Plan PROVE Place(d) \in Owned(NewReceipt)
  <2>1. CASE run.refined
    BY <1>0, <2>1, PlannedAreCarried
  <2>2. CASE ~ run.refined
    <3>1. d \in Claims(NewReceipt)
      BY <1>0, <2>2, NewReceiptClaims DEF Sound
    <3>2. QED
      BY <3>1 DEF Owned, Places
  <2>3. QED
    BY <2>1, <2>2
<1>2. WantedFiles \cup WantedServers \subseteq Owned(NewReceipt)
  BY <1>1 DEF WantedFiles, WantedServers, Places, Assets, Servers
<1>3. CASE pl \in ObsoleteFiles
  BY <1>0, <1>3 DEF WorkDone, Ours, Sound, WorkLeft
<1>4. CASE pl \in ServersAtStake
  <2>1. Ours(ServerTarget(pl))
    BY <1>0, <1>4 DEF WorkDone
  <2>2. pl \in WantedServers
    BY <2>1 DEF ServerTarget, Ours
  <2>3. QED
    BY <1>2, <2>2
<1>5. CASE pl \in Reconciled
  BY <1>2, <1>3, <1>4, <1>5 DEF Reconciled
<1>6. CASE pl \notin Reconciled
  <2>1. Ours(before[pl])
    BY <1>0, <1>6 DEF WorkDone
  <2>2. pl \in Owned(saw.receipt) \cup stray
    BY <2>1 DEF ReceiptSound, Base
  <2>3. CASE pl \in stray
    BY <1>6, <2>3
  <2>4. CASE pl \in Owned(saw.receipt)
    <3>1. pl \in WantedFiles \cup WantedServers
      BY <1>6, <2>4 DEF Reconciled, ObsoleteFiles, ServersAtStake, OwnedServers, AllPlaces
    <3>2. QED
      BY <1>2, <3>1
  <2>5. QED
    BY <2>2, <2>3, <2>4
<1>7. QED
  BY <1>5, <1>6

(* Every step keeps the receipt true and complete, of the disk without the  *)
(* run or with it.                                                          *)
LEMMA ReceiptSoundKept ==
    ASSUME Sound, Retraceable, WorkDone, ReceiptSound, [Next]_vars
    PROVE  ReceiptSound'
<1>0. /\ touched \subseteq stray
      /\ \A c \in Claims(receipt) : Base[Place(c)] = c.holds \/ Place(c) \in stray
      /\ \A pl \in AllPlaces : Ours(Base[pl]) => pl \in Owned(receipt) \cup stray
      /\ disk \in [AllPlaces -> Held] /\ before \in [AllPlaces -> Held]
      /\ \A c \in Claims(receipt) : Place(c) \in AllPlaces
  BY ClaimsTyped DEF ReceiptSound, Sound, StateTyped, TypeOK, Held
<1>1. ASSUME receipt' = receipt, touched' \subseteq stray', stray \subseteq stray',
             \A pl \in AllPlaces : Base'[pl] = Base[pl] \/ pl \in stray'
      PROVE  ReceiptSound'
  BY <1>0, <1>1 DEF ReceiptSound
<1>2. CASE \E pl \in AllPlaces, what \in {Absent, Foreign} : EditPlace(pl, what)
  <2>1. PICK pl \in AllPlaces, what \in {Absent, Foreign} : EditPlace(pl, what)
    BY <1>2
  <2>2. /\ disk' = [disk EXCEPT ![pl] = what] /\ before' = [before EXCEPT ![pl] = what]
        /\ touched' \subseteq touched \cup {pl} /\ stray' = stray \cup {pl}
        /\ receipt' = receipt /\ step' = step
    BY <2>1 DEF EditPlace, Elsewhere, records
  <2>3. \A x \in AllPlaces : Base'[x] = Base[x] \/ x \in stray'
    BY <1>0, <2>2 DEF Base
  <2>4. QED
    BY <1>0, <1>1, <2>2, <2>3
<1>3. CASE AroundStep /\ UNCHANGED <<disk, touched, before>>
  <2>1. step' = step /\ Base' = Base
    BY <1>3, Around DEF Base
  <2>2. CASE receipt' = receipt /\ stray' = stray
    BY <1>0, <1>1, <1>3, <2>1, <2>2
  <2>3. CASE \E kind \in {"missing", "unreadable"} : LoseReceipt(kind)
    <3>1. Claims(receipt') = {} /\ stray' = stray \cup Owned(receipt)
      BY <2>3, NoClaims DEF LoseReceipt
    <3>2. QED
      BY <1>0, <1>3, <2>1, <3>1 DEF ReceiptSound
  <2>4. CASE \E f \in DOMAIN receipt.facets : \E n \in DOMAIN receipt.facets[f].as : SpoilRecord(f, n)
    <3>1. /\ Claims(receipt') \subseteq Claims(receipt)
          /\ stray' = stray \cup (Owned(receipt) \ Owned(receipt'))
      BY <2>4, SpoiledClaims DEF SpoilRecord
    <3>2. QED
      BY <1>0, <1>3, <2>1, <3>1 DEF ReceiptSound
  <2>5. \/ receipt' = receipt /\ stray' = stray
        \/ \E kind \in {"missing", "unreadable"} : LoseReceipt(kind)
        \/ \E f \in DOMAIN receipt.facets : \E n \in DOMAIN receipt.facets[f].as : SpoilRecord(f, n)
        \/ \E pl \in AllPlaces, what \in {Absent, Foreign} : EditPlace(pl, what)
    BY <1>3 DEF AroundStep, vars, records, history, Review, Refuse, Waiting, Pull, Publish
  <2>6. QED
    BY <1>2, <2>2, <2>3, <2>4, <2>5
<1>4. CASE WriteStep
  <2>1. /\ step # "committed" /\ step' # "committed"
        /\ UNCHANGED <<receipt, touched, before, stray>>
    BY <1>4, Writes DEF Writing, records, history, Doing
  <2>2. QED
    BY <1>0, <1>1, <2>1 DEF Base
<1>5. CASE \E p \in Proc : \E c \in Requests(p) : Begin(p, c)
  <2>1. /\ holder = None /\ step' \in {"prepare", "resolve"} /\ touched' = {} /\ before' = disk
        /\ UNCHANGED <<receipt, stray>>
    BY <1>5 DEF Begin, records
  <2>2. step = "idle" /\ before = disk
    BY <2>1 DEF Sound, Calm, StateTyped, TypeOK
  <2>3. QED
    BY <1>0, <1>1, <2>1, <2>2 DEF Base
<1>6. CASE Resolve \/ Compose \/ PrepareServers \/ Consent \/ Stop \/ Undone \/ Undo
  <2>1. /\ step # "committed" /\ step' # "committed"
        /\ UNCHANGED <<receipt, touched, before, stray>>
    <3>1. CASE Resolve \/ Compose \/ PrepareServers
      BY <3>1, Deciding DEF ReadOnly, records, history
    <3>2. CASE Consent
      BY <3>2, Decides
    <3>3. CASE Stop \/ Undone \/ Undo
      BY <3>3 DEF Stop, Undone, Undo, Writing, records, history, At
    <3>4. QED
      BY <1>6, <3>1, <3>2, <3>3
  <2>2. QED
    BY <1>0, <1>1, <2>1 DEF Base
<1>7. CASE Commit \/ CommitFrozen
  <2>1. /\ step = "commit" /\ step' = "committed" /\ disk' = disk /\ touched' = touched
        /\ Base = before /\ Base' = disk
    BY <1>7, Commits DEF Base
  <2>2. CASE receipt = saw.receipt /\ receipt' = NewReceipt /\ stray' = (stray \ Reconciled) \cup touched
    BY <1>0, <2>1, <2>2, RecordedIsTrue, RecordedIsComplete DEF ReceiptSound
  <2>3. CASE receipt' = receipt /\ stray' = stray \cup Journalled
    <3>1. residue = {}
      BY <2>1 DEF Sound, Calm
    <3>2. \A pl \in AllPlaces : disk[pl] = before[pl] \/ pl \in stray'
      BY <1>0, <2>1, <2>3, <3>1, Unjournalled
    <3>3. QED
      BY <1>0, <1>1, <2>1, <2>3, <3>2
  <2>4. QED
    BY <1>7, <2>2, <2>3 DEF Commit, CommitFrozen, Recorded, Unrecorded, SameAsLoaded
<1>8. CASE Release \/ Crash
  <2>1. /\ receipt' = receipt /\ touched' = {} /\ before' = disk /\ Base' = disk
        /\ stray \subseteq stray'
    BY <1>8, Ends DEF Leave, Base
  <2>2. \A pl \in AllPlaces : Base[pl] = disk[pl] \/ pl \in stray'
    <3>1. CASE step = "committed"
      BY <3>1 DEF Base
    <3>2. CASE step # "committed"
      <4>1. stray' \in {stray \cup Journalled \cup residue, stray \cup residue}
            /\ (stray' = stray \cup Journalled \cup residue \/ Journalled = {})
        <5>1. CASE Crash
          BY <5>1 DEF Crash
        <5>2. CASE Release
          <6>1. step = "failed" /\ stray' = stray \cup residue
            BY <3>2, <5>2 DEF Release, At
          <6>2. DOMAIN journal = {}
            BY <6>1 DEF Sound, Calm
          <6>3. QED
            BY <6>1, <6>2 DEF Journalled
        <5>3. QED
          BY <1>8, <5>1, <5>2
      <4>2. QED
        BY <1>0, <3>2, <4>1, Unjournalled DEF Base
    <3>3. QED
      BY <3>1, <3>2
  <2>3. QED
    BY <1>1, <2>1, <2>2
<1>9. QED
  BY <1>2, <1>3, <1>4, <1>5, <1>6, <1>7, <1>8, Around, Kinds

----------------------------------------------------------------------------
(* The theorems.                                                            *)

(* The invariant: sound, and the disk is what the journal, the work done    *)
(* and the receipt make of it.                                              *)
Faithful == Sound /\ Retraceable /\ WorkDone /\ ReceiptSound

(* A project no run has touched is faithful.                                *)
LEMMA InitFaithful == Init => Faithful
<1> SUFFICES ASSUME Init PROVE Faithful
  OBVIOUS
<1>1. Sound /\ step = "idle" /\ journal = <<>> /\ before = disk /\ touched = {} /\ stray = {}
  BY InitSound DEF Init
<1>2. disk \in [AllPlaces -> Held]
  BY <1>1 DEF Sound, StateTyped, TypeOK, Held
<1>3. Retraceable
  <2> SUFFICES ASSUME NEW pl \in AllPlaces PROVE Traced(pl)
    BY DEF Retraceable, Traced
  <2>1. before[pl] = disk[pl] /\ disk[pl] \in Held
    BY <1>1, <1>2
  <2>2. QED
    BY <1>1, <2>1, NoTrailYet
<1>4. WorkDone
  BY <1>1 DEF WorkDone, Doing
<1>5. ReceiptSound
  <2>1. PICK w \in Worlds : receipt = w.receipt /\ disk = w.disk
    BY DEF Init
  <2>2. /\ \A pl \in AllPlaces : Ours(disk[pl]) => pl \in Owned(receipt)
        /\ \A c \in Claims(receipt) : disk[Place(c)] = c.holds
    BY <2>1, WorldsAssumption
  <2>3. QED
    BY <1>1, <2>2 DEF ReceiptSound, Base
<1>6. QED
  BY <1>1, <1>3, <1>4, <1>5 DEF Faithful

(* Every step keeps it so.                                                  *)
LEMMA FaithfulKept == Faithful /\ [Next]_vars => Faithful'
BY SoundKept, RetraceableKept, WorkDoneKept, ReceiptSoundKept DEF Faithful

(* Every step keeps the claims of the receipt uncontested: a plan is only   *)
(* carried out when nothing in it contends, and every other receipt claims  *)
(* no more than one before it.                                              *)
LEMMA UncontestedKept ==
    ASSUME Sound, ReceiptUncontested, [Next]_vars
    PROVE  ReceiptUncontested'
<1>1. ASSUME Claims(receipt') \subseteq Claims(receipt)
      PROVE  ReceiptUncontested'
  BY <1>1 DEF ReceiptUncontested
<1>2. CASE receipt' = receipt
  BY <1>1, <1>2
<1>3. CASE \E kind \in {"missing", "unreadable"} : LoseReceipt(kind)
  BY <1>1, <1>3, NoClaims DEF LoseReceipt
<1>4. CASE \E f \in DOMAIN receipt.facets : \E n \in DOMAIN receipt.facets[f].as : SpoilRecord(f, n)
  BY <1>1, <1>4, SpoiledClaims DEF SpoilRecord
<1>5. CASE step = "commit" /\ receipt = saw.receipt /\ receipt' = NewReceipt
  <2>1. Decided /\ holder # None
    BY <1>5 DEF Decided, Sound, StateTyped, TypeOK
  <2>2. CASE run.refined
    BY <1>1, <1>5, <2>1, <2>2, CarriedClaims DEF Sound
  <2>3. CASE ~ run.refined
    <3>1. Claims(receipt') = Plan
      BY <1>5, <2>1, <2>3, NewReceiptClaims DEF Sound
    <3>2. Contested(RunContents, run.over) = {}
      BY <2>1 DEF Sound, PlanSound, Plannable
    <3>3. \A c, d \in Plan : ~ Contend(c, d)
      BY <3>2 DEF Contested, Plan
    <3>4. QED
      BY <3>1, <3>3 DEF ReceiptUncontested
  <2>4. QED
    BY <2>2, <2>3
<1>6. CASE Commit \/ CommitFrozen
  BY <1>2, <1>5, <1>6, Commits DEF Commit, CommitFrozen, Recorded, Unrecorded, SameAsLoaded
<1>7. CASE AroundStep
  BY <1>2, <1>3, <1>4, <1>7
    DEF AroundStep, vars, records, history, Review, Refuse, Waiting, EditPlace, Pull, Publish
<1>8. CASE Resolve \/ Compose \/ PrepareServers \/ Consent
  BY <1>2, <1>8, Deciding, Decides DEF ReadOnly, records
<1>9. CASE Release \/ Crash
  BY <1>2, <1>9, Ends DEF Leave
<1>10. CASE WriteStep
  BY <1>2, <1>10, Writes DEF Writing, records
<1>11. CASE Stop \/ Undone \/ Undo
  BY <1>2, <1>11 DEF Stop, Undone, Undo, Writing, records
<1>12. CASE \E p \in Proc : \E c \in Requests(p) : Begin(p, c)
  BY <1>2, <1>12 DEF Begin, records
<1>13. QED
  BY <1>6, <1>7, <1>8, <1>9, <1>10, <1>11, <1>12, Around, Kinds

(* Whatever runs, edits, crashes and undoes come in whatever order, the     *)
(* state stays faithful.                                                    *)
THEOREM Faithfulness == Spec => []Faithful
BY InitFaithful, FaithfulKept, PTL DEF Spec

(* Between runs whatever the receipt claims is there, unless others have    *)
(* changed that very place or a run could not undo it (the receipt is       *)
(* written last, engine/src/install/receipt.ts).                            *)
THEOREM Truth == Spec => []ReceiptIsTrue
<1>1. Faithful => ReceiptIsTrue
  BY DEF Faithful, Sound, Calm, ReceiptSound, Base, ReceiptIsTrue, AtRest
<1>2. QED
  BY <1>1, Faithfulness, PTL

(* Between runs nothing a facet has brought is unclaimed: no later run      *)
(* would remove it (the obsolete files and servers are computed from the    *)
(* receipt alone, engine/src/install).                                      *)
THEOREM Completeness == Spec => []NothingStranded
<1>1. Faithful => NothingStranded
  BY DEF Faithful, Sound, Calm, ReceiptSound, Base, NothingStranded, AtRest
<1>2. QED
  BY <1>1, Faithfulness, PTL

(* No two different things the receipt claims share a place, whatever is    *)
(* added, updated or pulled meanwhile (the planner and the collision gate,  *)
(* protocol/src/materialization): no deletion on account of one takes away  *)
(* what another one answers for.                                            *)
THEOREM Ownership == Spec => []ReceiptUncontested
<1>1. Init => ReceiptUncontested
  BY WorldsAssumption DEF Init, ReceiptUncontested
<1>2. QED
  BY <1>1, UncontestedKept, Soundness, PTL DEF Spec

(* What a failed run leaves where nobody else has been.                     *)
FailedRunLeavesUntouched ==
    step = "failed" => \A pl \in AllPlaces \ (residue \cup touched) : disk[pl] = before[pl]

(* A run that failed has left every place as it was, but for what others    *)
(* have changed meanwhile or what it reports as not restored, however often *)
(* they edited (the rollback of the transaction, engine/src/install).       *)
THEOREM Restoration == Spec => []FailedRunLeavesUntouched
<1>1. Faithful => FailedRunLeavesUntouched
  <2> SUFFICES ASSUME Faithful, step = "failed", NEW pl \in AllPlaces \ (residue \cup touched)
               PROVE  disk[pl] = before[pl]
    BY DEF FailedRunLeavesUntouched
  <2>1. Journalled = {}
    BY DEF Faithful, Sound, Calm, Journalled
  <2>2. QED
    BY <2>1, Unjournalled DEF Faithful
<1>2. QED
  BY <1>1, Faithfulness, PTL

(* And, when no place is edited twice, every place as others have left it.  *)
THEOREM RestorationOfAll ==
    ASSUME MaxEdits <= 1
    PROVE  Spec => []FailedRunLeavesProject
<1>1. Faithful => FailedRunLeavesProject
  <2> SUFFICES ASSUME Faithful, step = "failed", NEW pl \in AllPlaces \ residue
               PROVE  disk[pl] = before[pl]
    BY DEF FailedRunLeavesProject
  <2>1. Len(journal) = 0
    BY DEF Faithful, Sound, Calm
  <2>2. TrailFrom(pl, 0)
    BY <2>1 DEF Faithful, Retraceable, Followed
  <2>3. PICK t \in [0..0 -> Held] :
           /\ \A i \in 0..0 : (\A j \in (0 + 1)..i : ~ Changes(j, pl)) => t[i] = before[pl]
           /\ t[0] = disk[pl]
    BY <2>1, <2>2 DEF TrailFrom
  <2>4. QED
    BY <2>3
<1>2. QED
  BY <1>1, Faithfulness, PTL

----------------------------------------------------------------------------
(* The refinement of ProjectState.                                          *)

(* The abstract specification reads the records as the run does.            *)
LEMMA SameRecords ==
    /\ \A m, l : State!FrozenConsistent(m, l) <=> FrozenConsistent(m, l)
    /\ \A r : State!ReceiptEntries(r) = ReceiptEntries(r)
    /\ \A l, n : State!Lists(l, n) <=> Lists(l, n)
    /\ \A f, S : State!Restrict(f, S) = Restrict(f, S)
<1>1. \A f, S : State!Restrict(f, S) = Restrict(f, S)
  BY DEF State!Restrict, Restrict
<1>2. \A l, n : State!Lists(l, n) <=> Lists(l, n)
  BY DEF State!Lists, Lists, State!CurrentFormat, CurrentFormat
<1>3. \A e : State!OmittedIn(e) = OmittedIn(e)
  BY DEF State!OmittedIn, OmittedIn
<1>4. \A e : State!ReceiptEntry(e) = ReceiptEntry(e)
  BY <1>1, <1>3 DEF State!ReceiptEntry, ReceiptEntry
<1>5. \A r : State!ReceiptEntries(r) = ReceiptEntries(r)
  BY <1>4 DEF State!ReceiptEntries, ReceiptEntries
<1>6. \A v, s : State!Satisfies(v, s) <=> Satisfies(v, s)
  BY DEF State!Satisfies, Satisfies
<1>7. \A m, l : State!Drift(m, l) = Drift(m, l)
  BY <1>6 DEF State!Drift, Drift
<1>8. \A l, n : State!Represents(l, n) <=> Represents(l, n)
  BY DEF State!Represents, Represents, State!CurrentFormat, CurrentFormat
<1>9. \A o, f, n : State!Intent(o, f, n) = Intent(o, f, n)
  BY DEF State!Intent, Intent
<1>10. \A l, S : State!LockedContents(l, S) = LockedContents(l, S)
  BY DEF State!LockedContents, LockedContents
<1>11. \A f : State!Overrides(f) = Overrides(f)
  BY DEF State!Overrides, Overrides
<1>12. \A l, o, S : State!IntentRecorded(l, o, S) <=> IntentRecorded(l, o, S)
  BY <1>9 DEF State!IntentRecorded, IntentRecorded
<1>13. \A k, o : State!StaleOverrides(k, o) = StaleOverrides(k, o)
  BY DEF State!StaleOverrides, StaleOverrides
<1>14. \A k, o, f, n : State!Claim(k, o, f, n) = Claim(k, o, f, n)
  BY <1>9 DEF State!Claim, Claim
<1>15. \A k, o : State!Planned(k, o) = Planned(k, o)
  BY <1>14 DEF State!Planned, Planned
<1>16. \A k, o : State!Materialized(k, o) = Materialized(k, o)
  BY <1>15 DEF State!Materialized, Materialized
<1>17. \A c : State!Place(c) = Place(c)
  BY DEF State!Place, Place, State!KindOf, KindOf, State!EffectiveName, EffectiveName
<1>18. \A c, d : State!Contend(c, d) <=> Contend(c, d)
  BY <1>17 DEF State!Contend, Contend
<1>19. \A k, o : State!Contested(k, o) = Contested(k, o)
  BY <1>16, <1>18 DEF State!Contested, Contested
<1>20. \A k, o : State!InvalidAliases(k, o) = InvalidAliases(k, o)
  BY <1>15 DEF State!InvalidAliases, InvalidAliases
<1>21. \A k, o : State!Plannable(k, o) <=> Plannable(k, o)
  BY <1>19, <1>20 DEF State!Plannable, Plannable
<1>22. \A m, l : State!FrozenConsistent(m, l) <=> FrozenConsistent(m, l)
  BY <1>7, <1>8, <1>10, <1>11, <1>12, <1>13, <1>21 DEF State!FrozenConsistent, FrozenConsistent
<1>23. QED
  BY <1>1, <1>2, <1>5, <1>22

(* Overrides that decide alike plan alike.                                  *)
LEMMA PlannedAlike ==
    ASSUME NEW contents, NEW over, NEW under,
           \A f \in DOMAIN contents : \A n \in DOMAIN contents[f] :
              Intent(over, f, n) = Intent(under, f, n),
           Plannable(contents, over)
    PROVE  Plannable(contents, under)
<1>1. Planned(contents, under) = Planned(contents, over)
  <2>1. \A f \in DOMAIN contents : \A n \in DOMAIN contents[f] :
           Claim(contents, over, f, n) = Claim(contents, under, f, n)
    BY DEF Claim
  <2>2. \A f \in DOMAIN contents :
           {Claim(contents, over, f, n) : n \in DOMAIN contents[f]}
             = {Claim(contents, under, f, n) : n \in DOMAIN contents[f]}
    BY <2>1
  <2>3. QED
    BY <2>2 DEF Planned
<1>2. Materialized(contents, under) = Materialized(contents, over)
  BY <1>1 DEF Materialized
<1>3. QED
  BY <1>1, <1>2 DEF Plannable, InvalidAliases, Contested

(* The manifest a run writes decides as the run did.                        *)
LEMMA NewManifestIs ==
    ASSUME Sound, Decided, holder # None
    PROVE  /\ NewManifest.existed = TRUE /\ DOMAIN NewManifest.facets = DOMAIN run.want
           /\ DOMAIN RunContents = DOMAIN run.want
           /\ \A f \in DOMAIN run.want :
                /\ NewManifest.facets[f].source = WrittenSource(run.want[f].source, op, f, run.got)
                /\ DOMAIN NewManifest.facets[f].over \subseteq DOMAIN RunContents[f]
                /\ NewManifest.facets[f].over = Overrides(NewManifest.facets)[f]
                /\ \A n \in DOMAIN RunContents[f] :
                      Intent(Overrides(NewManifest.facets), f, n) = Intent(run.over, f, n)
<1>1. DOMAIN RunContents = DOMAIN run.want
  BY RunContentsTyped DEF Sound
<1> DEFINE m == NewManifest
<1>2. /\ m.existed = TRUE /\ DOMAIN m.facets = DOMAIN run.want
      /\ \A f \in DOMAIN run.want :
            /\ m.facets[f].source = WrittenSource(run.want[f].source, op, f, run.got)
            /\ m.facets[f].over = Pruned(run.over, RunContents, f)
  BY DEF NewManifest, WrittenManifest
<1> HIDE DEF m
<1>3. \A f \in DOMAIN run.want : f \in DOMAIN run.over
  BY DEF Sound, RunTyped
<1>4. \A f \in DOMAIN run.want :
         m.facets[f].over = Restrict(run.over[f], DOMAIN run.over[f] \cap DOMAIN RunContents[f])
  BY <1>2, <1>3 DEF Pruned
<1>5. \A f \in DOMAIN run.want :
         /\ DOMAIN m.facets[f].over = DOMAIN run.over[f] \cap DOMAIN RunContents[f]
         /\ \A n \in DOMAIN m.facets[f].over : m.facets[f].over[n] = run.over[f][n]
  BY <1>4 DEF Restrict
<1>6. \A f \in DOMAIN run.want : m.facets[f].over = Overrides(m.facets)[f]
  BY <1>2 DEF Overrides
<1>7. \A f \in DOMAIN run.want : \A n \in DOMAIN RunContents[f] :
         Intent(Overrides(m.facets), f, n) = Intent(run.over, f, n)
  BY <1>5, <1>6 DEF Intent
<1>8. QED
  BY <1>1, <1>2, <1>5, <1>6, <1>7 DEF m

(* The current lockfile format has room for everything.                     *)
LEMMA CurrentFormatHoldsAll ==
    ASSUME NEW l, l.format = CurrentFormat, NEW n
    PROVE  Lists(l, n) /\ Represents(l, n)
BY DEF Lists, Represents, CurrentFormat

(* The manifest and the lockfile a run writes agree, so a frozen install    *)
(* may follow.                                                              *)
LEMMA WrittenAgree ==
    ASSUME Sound, Decided, holder # None
    PROVE  FrozenConsistent(NewManifest, NewLockfile)
<1> DEFINE m == NewManifest
           l == NewLockfile
           names == DOMAIN run.want
<1>1. /\ m.existed = TRUE /\ DOMAIN m.facets = names /\ DOMAIN RunContents = names
      /\ \A f \in names :
            /\ m.facets[f].source = WrittenSource(run.want[f].source, op, f, run.got)
            /\ DOMAIN m.facets[f].over \subseteq DOMAIN RunContents[f]
            /\ m.facets[f].over = Overrides(m.facets)[f]
            /\ \A n \in DOMAIN RunContents[f] :
                  Intent(Overrides(m.facets), f, n) = Intent(run.over, f, n)
  BY NewManifestIs
<1>2. l.existed = TRUE /\ l.format = CurrentFormat
  BY DEF NewLockfile
<1>3. /\ DOMAIN l.facets = names
      /\ \A f \in names :
            /\ Satisfies(l.facets[f].version, m.facets[f].source)
            /\ l.facets[f].holds = RunContents[f]
            /\ \A n \in DOMAIN RunContents[f] : l.facets[f].as[n] = Intent(run.over, f, n)
  <2>1. CASE run.refined
    <3>1. /\ Refinable(run.want, saw.lockfile, saw.receipt) /\ run.over = Overrides(run.want)
          /\ op.kind = "remove" /\ RunContents = LockedContents(saw.lockfile.facets, names)
      BY <2>1 DEF Sound, GatesPassed, RunContents
    <3>2. l.facets = Restrict(saw.lockfile.facets, names)
      BY <2>1 DEF NewLockfile
    <3>3. DOMAIN l.facets = names /\ \A f \in names : l.facets[f] = saw.lockfile.facets[f]
      BY <3>2 DEF Restrict
    <3>4. \A f \in names : RunContents[f] = saw.lockfile.facets[f].holds
      BY <3>1 DEF LockedContents
    <3>5. \A f \in names : m.facets[f].source = run.want[f].source
      BY <1>1, <3>1 DEF WrittenSource
    <3>6. \A f \in names : Satisfies(saw.lockfile.facets[f].version, run.want[f].source)
      BY <3>1 DEF Refinable
    <3>7. IntentRecorded(saw.lockfile.facets, run.over, names)
      BY <3>1 DEF Refinable
    <3> HIDE DEF m, l, names
    <3>8. QED
      BY <3>3, <3>4, <3>5, <3>6, <3>7 DEF IntentRecorded
  <2>2. CASE ~ run.refined
    <3>1. /\ DOMAIN run.got = names
          /\ \A f \in names : Satisfies(run.got[f], run.want[f].source)
      BY <2>2 DEF Sound, VersionsSound, Decided
    <3>2. l.facets = LockEntries(run.got, run.over) /\ RunContents = Contents(run.got)
      BY <2>2 DEF NewLockfile, RunContents
    <3>3. /\ DOMAIN l.facets = names
          /\ \A f \in names :
                /\ l.facets[f].version = run.got[f]
                /\ l.facets[f].holds = Declares[f][run.got[f]]
                /\ \A n \in DOMAIN Declares[f][run.got[f]] : l.facets[f].as[n] = Intent(run.over, f, n)
                /\ RunContents[f] = Declares[f][run.got[f]]
      BY <3>1, <3>2 DEF LockEntries, Contents
    <3> HIDE DEF m, l, names
    <3>4. ASSUME NEW f \in names PROVE Satisfies(run.got[f], m.facets[f].source)
      <4>1. m.facets[f].source \in {run.want[f].source, Exactly(run.got[f])}
        BY <1>1 DEF WrittenSource
      <4>2. Satisfies(run.got[f], Exactly(run.got[f]))
        BY DEF Satisfies, Exactly
      <4>3. QED
        BY <3>1, <4>1, <4>2
    <3>5. QED
      BY <3>3, <3>4
  <2>3. QED
    BY <2>1, <2>2
<1> HIDE DEF m, l, names
<1>4. Drift(m, l) = {}
  BY <1>1, <1>2, <1>3 DEF Drift
<1> DEFINE over == Overrides(m.facets)
           contents == LockedContents(l.facets, names)
<1>5. contents = RunContents
  <2>1. DOMAIN contents = names /\ \A f \in names : contents[f] = RunContents[f]
    BY <1>3 DEF LockedContents
  <2>2. RunContents = [f \in DOMAIN RunContents |-> RunContents[f]]
    BY DEF RunContents, LockedContents, Contents
  <2>3. contents = [f \in names |-> contents[f]]
    BY DEF LockedContents
  <2> HIDE DEF contents
  <2>4. QED
    BY <1>1, <2>1, <2>2, <2>3
<1> HIDE DEF contents, over
<1>6. \A f \in names : \A n \in DOMAIN over[f] : Represents(l, n)
  BY <1>2, CurrentFormatHoldsAll
<1>7. Plannable(contents, over)
  <2>1. Plannable(RunContents, run.over)
    BY DEF Sound, PlanSound
  <2>2. \A f \in DOMAIN RunContents : \A n \in DOMAIN RunContents[f] :
           Intent(run.over, f, n) = Intent(over, f, n)
    BY <1>1 DEF over
  <2>3. QED
    BY <1>5, <2>1, <2>2, PlannedAlike
<1>8. StaleOverrides(contents, over) = {}
  BY <1>1, <1>5 DEF StaleOverrides, over
<1>9. IntentRecorded(l.facets, over, names)
  BY <1>1, <1>3 DEF IntentRecorded, over
<1>10. QED
  BY <1>1, <1>4, <1>6, <1>7, <1>8, <1>9 DEF FrozenConsistent, contents, over, m, l

(* The receipt it writes records that lockfile.                             *)
LEMMA WrittenRecords ==
    ASSUME Sound, Decided, holder # None
    PROVE  State!Records(NewReceipt, NewLockfile)
<1> DEFINE r == NewReceipt
           l == NewLockfile
<1>1. l.format = CurrentFormat /\ r.kind = "loaded"
  BY DEF NewLockfile, NewReceipt
<1>2. /\ DOMAIN r.facets = DOMAIN l.facets
      /\ \A f \in DOMAIN l.facets : /\ r.facets[f].version = l.facets[f].version
                                    /\ r.facets[f].as = ReceiptEntry(l.facets[f]).as
  <2>1. CASE ~ run.refined
    <3>1. r.facets = ReceiptEntries(l.facets)
      BY <2>1 DEF NewReceipt, NewLockfile
    <3> HIDE DEF r, l
    <3>2. QED
      BY <3>1 DEF ReceiptEntries, ReceiptEntry
  <2>2. CASE run.refined
    <3> DEFINE locked == saw.lockfile.facets
               held == saw.receipt.facets
    <3>1. Refinable(run.want, saw.lockfile, saw.receipt)
      BY <2>2 DEF Sound, GatesPassed
    <3>2. r.facets = CarriedForward(saw.receipt, locked, DOMAIN run.want)
          /\ l.facets = Restrict(locked, DOMAIN run.want)
      BY <2>2 DEF NewReceipt, NewLockfile
    <3>3. /\ DOMAIN r.facets = DOMAIN run.want /\ DOMAIN l.facets = DOMAIN run.want
          /\ \A f \in DOMAIN run.want :
                /\ l.facets[f] = locked[f]
                /\ r.facets[f].version = held[f].version
                /\ r.facets[f].as = Restrict(held[f].as,
                      {n \in DOMAIN held[f].as : n \in ServerName \cup (DOMAIN locked[f].as \ OmittedIn(locked[f]))})
      <4> HIDE DEF r, l
      <4>1. l.facets = [f \in DOMAIN run.want |-> locked[f]]
        BY <3>2 DEF Restrict
      <4>2. DOMAIN r.facets = DOMAIN run.want
        BY <3>2 DEF CarriedForward
      <4>3. DOMAIN l.facets = DOMAIN run.want /\ \A f \in DOMAIN run.want : l.facets[f] = locked[f]
        BY <4>1
      <4>4. ASSUME NEW f \in DOMAIN run.want
            PROVE  /\ r.facets[f].version = held[f].version
                   /\ r.facets[f].as = Restrict(held[f].as,
                        {n \in DOMAIN held[f].as :
                           n \in ServerName \cup (DOMAIN locked[f].as \ OmittedIn(locked[f]))})
        <5> DEFINE kept == Restrict(held[f].as,
                              {n \in DOMAIN held[f].as :
                                 n \in ServerName \cup (DOMAIN locked[f].as \ OmittedIn(locked[f]))})
        <5>1. r.facets[f] = [version |-> held[f].version, as |-> kept]
          BY <3>2 DEF CarriedForward
        <5> HIDE DEF kept
        <5>2. r.facets[f].version = held[f].version /\ r.facets[f].as = kept
          BY <5>1
        <5>3. QED
          BY <5>2 DEF kept
      <4>5. QED
        BY <4>2, <4>3, <4>4
    <3> HIDE DEF r, l
    <3>4. ASSUME NEW f \in DOMAIN run.want
          PROVE  /\ held[f].version = locked[f].version
                 /\ r.facets[f].as = ReceiptEntry(locked[f]).as
      <4>1. Witnessed(f, held[f], locked[f])
        BY <3>1 DEF Refinable
      <4> DEFINE placed == DOMAIN locked[f].as \ OmittedIn(locked[f])
      <4>2. /\ held[f].version = locked[f].version
            /\ placed \subseteq DOMAIN held[f].as
            /\ \A n \in placed : held[f].as[n] = locked[f].as[n]
            /\ DOMAIN held[f].as \cap ServerName \subseteq placed
        BY <4>1 DEF Witnessed
      <4>3. {n \in DOMAIN held[f].as : n \in ServerName \cup placed} = placed
        BY <4>2
      <4>4. r.facets[f].as = Restrict(held[f].as, placed)
        BY <3>3, <4>3
      <4>5. Restrict(held[f].as, placed) = Restrict(locked[f].as, placed)
        BY <4>2 DEF Restrict
      <4>6. ReceiptEntry(locked[f]).as = Restrict(locked[f].as, placed)
        BY DEF ReceiptEntry
      <4>7. QED
        BY <4>2, <4>4, <4>5, <4>6
    <3>5. QED
      BY <3>3, <3>4
  <2>3. QED
    BY <2>1, <2>2
<1> HIDE DEF r, l
<1>3. ASSUME NEW f \in DOMAIN l.facets
      PROVE  Restrict(r.facets[f].as, {n \in DOMAIN r.facets[f].as : Lists(l, n)}) = r.facets[f].as
  <2>1. {n \in DOMAIN r.facets[f].as : Lists(l, n)} = DOMAIN r.facets[f].as
    BY <1>1, CurrentFormatHoldsAll
  <2>2. r.facets[f].as = [n \in DOMAIN r.facets[f].as |-> r.facets[f].as[n]]
    BY <1>2 DEF ReceiptEntry, Restrict
  <2>3. QED
    BY <2>1, <2>2 DEF Restrict
<1>4. /\ DOMAIN ReceiptEntries(l.facets) = DOMAIN l.facets
      /\ \A f \in DOMAIN l.facets : /\ ReceiptEntries(l.facets)[f] = ReceiptEntry(l.facets[f])
                                    /\ ReceiptEntry(l.facets[f]).version = l.facets[f].version
  BY DEF ReceiptEntries, ReceiptEntry
<1>5. State!Records(r, l)
  BY <1>1, <1>2, <1>3, <1>4, SameRecords DEF State!Records
<1>6. QED
  BY <1>5 DEF r, l

(* The receipt a frozen install writes records the lockfile it loaded.      *)
LEMMA FrozenRecords ==
    ASSUME Sound, step = "commit", holder # None, op.kind = "frozen"
    PROVE  /\ FrozenConsistent(saw.manifest, saw.lockfile)
           /\ State!Records(NewReceipt, saw.lockfile)
<1>0. Decided
  BY DEF Decided
<1> DEFINE r == NewReceipt
           l == saw.lockfile
           names == DOMAIN run.want
<1>1. ~ run.refined
  BY DEF Sound, GatesPassed
<1>2. /\ FrozenConsistent(saw.manifest, l) /\ run.want = saw.manifest.facets
      /\ run.over = Overrides(saw.manifest.facets)
  BY DEF Sound, GatesPassed, Merged
<1>3. LockfileTyped(l)
  BY DEF Sound, RunTyped
<1>4. Drift(saw.manifest, l) = {} /\ IntentRecorded(l.facets, run.over, names)
  BY <1>2 DEF FrozenConsistent
<1>5. DOMAIN l.facets = names
  BY <1>2, <1>3, <1>4 DEF Drift, LockfileTyped
<1>6. \A f \in names : Satisfies(l.facets[f].version, run.want[f].source)
  BY <1>2, <1>4, <1>5 DEF Drift
<1>7. /\ DOMAIN run.got = names
      /\ \A f \in names : run.got[f] = l.facets[f].version /\ Reconciles(l, f, run.got[f])
  <2>1. /\ DOMAIN run.got = names
        /\ \A f \in names :
              /\ Reconciles(l, f, run.got[f])
              /\ Anchored(l.facets, f, run.want[f].source, ResolutionIntent(op, f))
                    => run.got[f] = l.facets[f].version
    BY <1>0, <1>1 DEF Sound, VersionsSound
  <2>2. \A f : ResolutionIntent(op, f) = "manifest"
    BY DEF ResolutionIntent
  <2>3. \A f \in names : Anchored(l.facets, f, run.want[f].source, ResolutionIntent(op, f))
    BY <1>5, <1>6, <2>2 DEF Anchored
  <2>4. QED
    BY <2>1, <2>3
<1>8. r.kind = "loaded" /\ r.facets = ReceiptEntries(LockEntries(run.got, run.over))
  BY <1>1 DEF NewReceipt
<1> HIDE DEF r, l, names
<1>9. /\ DOMAIN r.facets = names
      /\ \A f \in names :
            /\ r.facets[f].version = run.got[f]
            /\ r.facets[f].as =
                 [n \in {n \in DOMAIN Declares[f][run.got[f]] : Intent(run.over, f, n) # "omitted"}
                    |-> Intent(run.over, f, n)]
  <2> DEFINE e == LockEntries(run.got, run.over)
  <2>1. /\ DOMAIN e = names
        /\ \A f \in names :
              /\ e[f].version = run.got[f]
              /\ e[f].as = [n \in DOMAIN Declares[f][run.got[f]] |-> Intent(run.over, f, n)]
    BY <1>7 DEF LockEntries
  <2> HIDE DEF e
  <2>2. ASSUME NEW f \in names
        PROVE  ReceiptEntry(e[f]).as =
                 [n \in {n \in DOMAIN Declares[f][run.got[f]] : Intent(run.over, f, n) # "omitted"}
                    |-> Intent(run.over, f, n)]
    <3>1. DOMAIN e[f].as \ OmittedIn(e[f])
            = {n \in DOMAIN Declares[f][run.got[f]] : Intent(run.over, f, n) # "omitted"}
      BY <2>1 DEF OmittedIn
    <3>2. ReceiptEntry(e[f]).as = [n \in DOMAIN e[f].as \ OmittedIn(e[f]) |-> e[f].as[n]]
      BY DEF ReceiptEntry, Restrict
    <3>3. \A n \in DOMAIN e[f].as : e[f].as[n] = Intent(run.over, f, n)
      BY <2>1
    <3>4. QED
      BY <3>1, <3>2, <3>3
  <2>3. r.facets = ReceiptEntries(e)
    BY <1>8 DEF e
  <2>4. \A f \in names : r.facets[f] = ReceiptEntry(e[f]) /\ ReceiptEntry(e[f]).version = e[f].version
    BY <2>1, <2>3 DEF ReceiptEntries, ReceiptEntry
  <2>5. DOMAIN r.facets = names
    BY <2>1, <2>3 DEF ReceiptEntries
  <2>6. QED
    BY <2>1, <2>2, <2>4, <2>5
<1>10. ASSUME NEW f \in names
       PROVE  Restrict(r.facets[f].as, {n \in DOMAIN r.facets[f].as : Lists(l, n)})
                 = ReceiptEntry(l.facets[f]).as
  <2> DEFINE holds == Declares[f][run.got[f]]
             entry == l.facets[f]
  <2>1. entry.holds = Restrict(holds, {n \in DOMAIN holds : Lists(l, n)})
    BY <1>5, <1>7 DEF Reconciles
  <2>2. DOMAIN entry.as = DOMAIN entry.holds
    BY <1>3, <1>5 DEF LockfileTyped
  <2>3. DOMAIN entry.as = {n \in DOMAIN holds : Lists(l, n)}
    BY <2>1, <2>2 DEF Restrict
  <2>4. \A n \in DOMAIN entry.as : Intent(run.over, f, n) = entry.as[n]
    BY <1>4, <2>2 DEF IntentRecorded
  <2>5. {n \in DOMAIN r.facets[f].as : Lists(l, n)} = DOMAIN entry.as \ OmittedIn(entry)
    BY <1>9, <2>3, <2>4 DEF OmittedIn
  <2>6. \A n \in DOMAIN entry.as \ OmittedIn(entry) : r.facets[f].as[n] = entry.as[n]
    <3> SUFFICES ASSUME NEW n \in DOMAIN entry.as \ OmittedIn(entry)
                 PROVE  r.facets[f].as[n] = entry.as[n]
      OBVIOUS
    <3>1. n \in DOMAIN holds /\ Intent(run.over, f, n) = entry.as[n] /\ entry.as[n] # "omitted"
      BY <2>3, <2>4 DEF OmittedIn
    <3>2. n \in {x \in DOMAIN holds : Intent(run.over, f, x) # "omitted"}
      BY <3>1
    <3>3. QED
      BY <1>9, <3>1, <3>2
  <2>7. QED
    BY <2>5, <2>6 DEF ReceiptEntry, Restrict
<1>11. /\ DOMAIN ReceiptEntries(l.facets) = names
       /\ \A f \in names : /\ ReceiptEntries(l.facets)[f] = ReceiptEntry(l.facets[f])
                           /\ ReceiptEntry(l.facets[f]).version = l.facets[f].version
  BY <1>5 DEF ReceiptEntries, ReceiptEntry
<1>12. State!Records(r, l)
  <2>1. \A f \in names : r.facets[f].version = ReceiptEntries(l.facets)[f].version
    BY <1>7, <1>9, <1>11
  <2>2. \A f \in names :
           Restrict(r.facets[f].as, {n \in DOMAIN r.facets[f].as : Lists(l, n)})
             = ReceiptEntries(l.facets)[f].as
    BY <1>10, <1>11
  <2>3. r.kind = "loaded" /\ DOMAIN r.facets = DOMAIN ReceiptEntries(l.facets)
    BY <1>8, <1>9, <1>11
  <2>4. DOMAIN ReceiptEntries(l.facets) = names
    BY <1>11
  <2>5. QED
    BY <2>1, <2>2, <2>3, <2>4, SameRecords DEF State!Records
<1>13. QED
  BY <1>2, <1>12 DEF r, l

(* The command that has the project.                                        *)
Writer == IF step = "committed" THEN None ELSE holder

(* The records as it loaded them.                                           *)
Loaded == IF step \in {"idle", "committed"} THEN <<>> ELSE <<run.saw.manifest, run.saw.lockfile, run.saw.receipt>>

(* What the abstract specification sees.                                    *)
StateVars == <<records, Writer, edits>>

(* A commit changes the three records together.                             *)
LEMMA CommitMapped ==
    ASSUME Sound, Commit
    PROVE  State!Commit
<1>1. /\ step = "commit" /\ step' = "committed" /\ holder # None /\ Decided
      /\ records = Loaded /\ edits' = edits
      /\ manifest' = NewManifest /\ lockfile' = NewLockfile /\ receipt' = NewReceipt
  BY DEF Commit, EndOfCommit, At, SameAsLoaded, Recorded, Decided, records, Loaded, counters, saw
<1>2. FrozenConsistent(NewManifest, NewLockfile)
  BY <1>1, WrittenAgree
<1>3. State!Records(NewReceipt, NewLockfile)
  BY <1>1, WrittenRecords
<1>4. State!FrozenConsistent(manifest', lockfile')
  BY <1>1, <1>2, SameRecords
<1>5. State!Records(receipt', lockfile')
  BY <1>1, <1>3
<1>6. State!Leave
  BY <1>1 DEF State!Leave
<1>7. QED
  BY <1>1, <1>4, <1>5, <1>6 DEF State!Commit, State!records, Loaded, records

(* A frozen install writes the receipt, or nothing.                         *)
LEMMA CommitFrozenMapped ==
    ASSUME Sound, CommitFrozen
    PROVE  State!Record \/ State!GiveUp
<1>1. /\ step = "commit" /\ step' = "committed" /\ holder # None /\ op.kind = "frozen"
      /\ edits' = edits /\ UNCHANGED <<manifest, lockfile>>
      /\ \/ receipt = saw.receipt /\ receipt' = NewReceipt
         \/ receipt' = receipt
  BY DEF CommitFrozen, EndOfCommit, At, Recorded, Unrecorded, counters
<1>2. State!Leave
  BY <1>1 DEF State!Leave
<1>3. CASE receipt' = receipt
  BY <1>1, <1>2, <1>3 DEF State!GiveUp, State!records
<1>4. CASE receipt = saw.receipt /\ receipt' = NewReceipt
  <2>1. /\ FrozenConsistent(saw.manifest, saw.lockfile)
        /\ State!Records(receipt', saw.lockfile)
    BY <1>1, <1>4, FrozenRecords
  <2>2. Loaded = <<saw.manifest, saw.lockfile, saw.receipt>>
    BY <1>1 DEF Loaded, saw
  <2>3. State!FrozenConsistent(saw.manifest, saw.lockfile)
    BY <2>1, SameRecords
  <2>4. QED
    BY <1>1, <1>2, <1>4, <2>1, <2>2, <2>3 DEF State!Record, Loaded
<1>5. QED
  BY <1>1, <1>3, <1>4

(* A run that ends otherwise gives up, or dies with the records torn in one *)
(* way only.                                                                *)
LEMMA EndMapped ==
    ASSUME Sound, Release \/ Crash
    PROVE  State!GiveUp \/ State!Tear \/ UNCHANGED StateVars
<1>1. /\ holder # None /\ holder' = None /\ step' = "idle" /\ receipt' = receipt /\ edits' = edits
  BY Ends DEF Leave
<1>2. CASE step = "committed"
  <2>1. manifest' = manifest /\ lockfile' = lockfile
    BY <1>2, Ends DEF At
  <2>2. QED
    BY <1>1, <1>2, <2>1 DEF StateVars, Writer, records
<1>3. CASE step # "committed"
  <2>1. State!Leave
    BY <1>1, <1>3 DEF State!Leave
  <2>2. CASE manifest' = manifest /\ lockfile' = lockfile
    BY <1>1, <2>1, <2>2 DEF State!GiveUp, State!records
  <2>3. CASE ~ (manifest' = manifest /\ lockfile' = lockfile)
    <3>1. /\ step = "commit" /\ SameAsLoaded /\ manifest' = NewManifest
          /\ lockfile' \in {lockfile, NewLockfile}
      BY <2>3 DEF Release, Crash, records, At
    <3>2. records = Loaded /\ Decided
      BY <3>1 DEF SameAsLoaded, records, Loaded, saw, Decided
    <3>3. FrozenConsistent(NewManifest, NewLockfile)
      BY <1>1, <3>2, WrittenAgree
    <3>4. lockfile' # lockfile => State!FrozenConsistent(manifest', lockfile')
      BY <3>1, <3>3, SameRecords
    <3>5. QED
      BY <1>1, <2>1, <3>2, <3>4 DEF State!Tear, State!records, records, Loaded
  <2>4. QED
    BY <2>2, <2>3
<1>4. QED
  BY <1>2, <1>3

(* The surroundings edit.                                                   *)
LEMMA AroundMapped ==
    ASSUME AroundStep
    PROVE  State!Edit \/ UNCHANGED StateVars
<1>1. UNCHANGED <<holder, step, run>>
  BY Around
<1>2. Writer' = Writer /\ Loaded' = Loaded
  BY <1>1 DEF Writer, Loaded
<1>3. edits' = edits + 1 \/ UNCHANGED <<records, edits>>
  BY DEF AroundStep, vars, counters, Review, Refuse, Waiting, EditPlace, Pull, LoseReceipt,
         SpoilRecord, Elsewhere, Publish
<1>4. QED
  BY <1>2, <1>3 DEF State!Edit, StateVars, Writer, Loaded

(* Every step is one of the abstract specification, or invisible to it.     *)
LEMMA StepMapped ==
    ASSUME Sound, [Next]_vars
    PROVE  State!Next \/ UNCHANGED StateVars
<1>1. CASE AroundStep
  BY <1>1, AroundMapped DEF State!Next
<1>2. CASE \E p \in Proc : \E c \in Requests(p) : Begin(p, c)
  <2>1. PICK p \in Proc : \E c \in Requests(p) : Begin(p, c)
    BY <1>2
  <2>2. /\ holder = None /\ holder' = p /\ step' \in {"prepare", "resolve"}
        /\ run'.saw = [manifest |-> manifest, lockfile |-> lockfile, receipt |-> receipt]
        /\ UNCHANGED <<records, edits>>
    BY <2>1 DEF Begin, counters
  <2>3. step = "idle" /\ step' \notin {"idle", "committed"}
    BY <2>2 DEF Sound, StateTyped, TypeOK
  <2>4. State!Load(p)
    BY <2>2, <2>3 DEF State!Load, State!records, records
  <2>5. QED
    BY <2>4 DEF State!Next
<1>3. CASE WriteStep \/ Resolve \/ Compose \/ PrepareServers \/ Consent \/ Stop \/ Undo \/ Undone
  <2>1. /\ step # "committed" /\ step' # "committed" /\ holder' = holder
        /\ UNCHANGED <<records, edits>>
    <3>1. CASE WriteStep
      BY <3>1, Writes DEF Writing, outside, counters, Doing
    <3>2. CASE Resolve \/ Compose \/ PrepareServers
      BY <3>2, Deciding DEF ReadOnly, outside, counters
    <3>3. CASE Consent
      BY <3>3, Decides DEF records
    <3>4. CASE Stop \/ Undo \/ Undone
      BY <3>4 DEF Stop, Undo, Undone, Writing, outside, counters, At
    <3>5. QED
      BY <1>3, <3>1, <3>2, <3>3, <3>4
  <2>2. QED
    BY <2>1 DEF StateVars, Writer
<1>4. CASE Commit
  BY <1>4, CommitMapped DEF State!Next
<1>5. CASE CommitFrozen
  BY <1>5, CommitFrozenMapped DEF State!Next
<1>6. CASE Release \/ Crash
  BY <1>6, EndMapped DEF State!Next
<1>7. QED
  BY <1>1, <1>2, <1>3, <1>4, <1>5, <1>6, Kinds

(* The three records change together, from what the run loaded to records   *)
(* that agree; a crash tears them in one way only (the commit of the        *)
(* records, engine/src/install).                                            *)
THEOREM Refinement == Spec => ImplementsProjectState
<1>1. Init => State!Init
  BY DEF Init, State!Init
<1>2. Sound /\ [Next]_vars => [State!Next]_(<<State!records, Writer, edits>>)
  BY StepMapped DEF StateVars, State!records, records
<1>3. QED
  BY <1>1, <1>2, Soundness, PTL DEF Spec, ImplementsProjectState, State!Spec, Writer

=============================================================================
