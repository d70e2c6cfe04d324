-------------------------------- MODULE EtchStore --------------------------------
(***************************************************************************)
(* HolographicEtch (src/core/holographicEtch.ts): the ring of committed    *)
(* etches, the audit ring that also holds rejections, the growth ledger    *)
(* (positiveResonanceAmplifier.ts), the files of FileEtchBackend           *)
(* (etchBackend.ts) and what is forwarded to the ledger.  One instance is  *)
(* open at a time.  A record stands for its content and its number; the    *)
(* hash of a committed record is of the content only.  An append to a file *)
(* may write nothing, a part of its line, or all of it but the newline:    *)
(* the next line is then glued to it.                                      *)
(***************************************************************************)
EXTENDS Naturals, Sequences, FiniteSets, SequencesExt

CONSTANTS
    Contents,     \* context, synthesis vector and note of an etch
    Confident,    \* those whose normalized delta reaches the confidence floor
    EtchCapacity, \* maxEtches
    MaxApplied,   \* bound: applyEtch() calls
    MaxUpsets     \* bound: failed writes, restarts, restores, other growth events

ASSUME EtchStoreAssumption ==
    /\ Confident \subseteq Contents
    /\ EtchCapacity \in Nat \ {0} /\ MaxApplied \in Nat /\ MaxUpsets \in Nat

VARIABLES
    etches, audit,         \* the rings, oldest first
    growth,                \* the ring of growth events
    etchFile, auditFile,   \* the files; the growth file is never written
    sentOn,                \* requests forwarded to the ledger, in order
    applied, upsets,
    shots,                 \* snapshots taken
    sound,                 \* no write failed, nothing was restored (history)
    cut,                   \* a restore failed between emptying the two files (history)
    since                  \* records committed since the instance was opened (history)

etchStoreVars == <<etches, audit, growth, etchFile, auditFile, sentOn, applied, upsets,
                   shots, sound, cut, since>>

Record == [of : Contents, at : Nat, committed : BOOLEAN]
NoGrowth == <<>>

(* What stands in a line that does not parse.                              *)
Scrap == [scrap |-> TRUE]
Line == [text : Record \cup {Scrap}, ended : BOOLEAN]
Parses(lines) == \A i \in DOMAIN lines : lines[i].text # Scrap
Texts(lines) == [i \in DOMAIN lines |-> lines[i].text]

EtchStoreTypeOK ==
    /\ etches \in Seq(Record) /\ audit \in Seq(Record)
    /\ Len(etches) <= EtchCapacity /\ Len(audit) <= EtchCapacity
    /\ Len(growth) <= EtchCapacity
    /\ etchFile \in Seq(Line) /\ auditFile \in Seq(Line)
    /\ sentOn \in Seq(Contents) /\ since \in Seq(Record)
    /\ applied \in 0..MaxApplied /\ upsets \in 0..MaxUpsets /\ sound \in BOOLEAN /\ cut \in BOOLEAN
    /\ shots \subseteq [etches : Seq(Record), audit : Seq(Record)]

EtchStoreInit ==
    /\ etches = <<>> /\ audit = <<>> /\ growth = <<>>
    /\ etchFile = <<>> /\ auditFile = <<>> /\ sentOn = <<>>
    /\ applied = 0 /\ upsets = 0 /\ shots = {}
    /\ sound = TRUE /\ cut = FALSE /\ since = <<>>

InRing(items, x) ==
    IF Len(items) = EtchCapacity THEN Append(Tail(items), x) ELSE Append(items, x)
NewestOf(items, n) == SubSeq(items, Len(items) - (IF n < Len(items) THEN n ELSE Len(items)) + 1,
                             Len(items))
Upset == upsets < MaxUpsets /\ upsets' = upsets + 1

(* recordGrowthEvent: chained to the last event of the ring. *)
GrowthEvent(of) ==
    LET parent == IF growth = <<>> THEN NoGrowth ELSE Last(growth).hash
    IN  [of |-> of, parent |-> parent, hash |-> <<of, parent>>]

(* applyEtch(), below the floor: seen by the audit ring only. *)
RejectEtch(c) ==
    /\ c \notin Confident /\ applied < MaxApplied
    /\ applied' = applied + 1
    /\ audit' = InRing(audit, [of |-> c, at |-> applied + 1, committed |-> FALSE])
    /\ UNCHANGED <<etches, growth, etchFile, auditFile, sentOn, upsets, shots, sound, cut, since>>

-----------------------------------------------------------------------------
(* The files. *)

(* What a file is when text is written behind the lines it has.            *)
AppendLine(lines, text, ended) ==
    IF lines # <<>> /\ ~Last(lines).ended
    THEN Append(Front(lines), [text |-> Scrap, ended |-> ended])
    ELSE Append(lines, [text |-> text, ended |-> ended])

(* What an append that throws may leave.                                   *)
FailedAppend(lines, r) ==
    {lines, AppendLine(lines, Scrap, FALSE), AppendLine(lines, r, FALSE)}

(* Records written to an empty file, all of them or until an append throws. *)
Written(records) == [i \in DOMAIN records |-> [text |-> records[i], ended |-> TRUE]]
Stopped(records) ==
    UNION {FailedAppend(Written(SubSeq(records, 1, k)), records[k + 1]) :
               k \in 0..(Len(records) - 1)}

(* Mutant of Persist: the audit file is written first. *)
PersistAuditFirst(r) ==
    \/ /\ etchFile' = AppendLine(etchFile, r, TRUE) /\ auditFile' = AppendLine(auditFile, r, TRUE)
       /\ UNCHANGED <<upsets, sound>>
    \/ /\ Upset /\ sound' = FALSE
       /\ \/ auditFile' \in FailedAppend(auditFile, r) /\ UNCHANGED etchFile
          \/ /\ auditFile' = AppendLine(auditFile, r, TRUE)
             /\ etchFile' \in FailedAppend(etchFile, r)

(* Both appends stand in one try, whose error is only logged: when the     *)
(* first throws the second is not reached.                                 *)
Persist(r) ==
    \/ /\ etchFile' = AppendLine(etchFile, r, TRUE) /\ auditFile' = AppendLine(auditFile, r, TRUE)
       /\ UNCHANGED <<upsets, sound>>
    \/ /\ Upset /\ sound' = FALSE
       /\ \/ etchFile' \in FailedAppend(etchFile, r) /\ UNCHANGED auditFile
          \/ /\ etchFile' = AppendLine(etchFile, r, TRUE)
             /\ auditFile' \in FailedAppend(auditFile, r)

-----------------------------------------------------------------------------
(* The store. *)

Commit(c) ==
    /\ c \in Confident /\ applied < MaxApplied
    /\ applied' = applied + 1
    /\ LET r == [of |-> c, at |-> applied + 1, committed |-> TRUE]
       IN  /\ etches' = InRing(etches, r)
           /\ audit' = InRing(audit, r)
           /\ Persist(r)
           /\ growth' = InRing(growth, GrowthEvent([kind |-> "etch", record |-> r]))
           /\ since' = Append(since, r)
    /\ sentOn' = Append(sentOn, c)
    /\ UNCHANGED <<shots, cut>>

(* recordPositiveGrowthEvent() *)
Celebrate ==
    /\ Upset
    /\ growth' = InRing(growth, GrowthEvent([kind |-> "celebration"]))
    /\ UNCHANGED <<etches, audit, etchFile, auditFile, sentOn, applied, shots, sound, cut,
                   since>>

(* Mutant of Hydrate: the lines are taken from the front of the file. *)
HydrateOldest(lines) == SubSeq(lines, 1, IF Len(lines) < EtchCapacity THEN Len(lines)
                                                                      ELSE EtchCapacity)
Hydrate(lines) == NewestOf(lines, EtchCapacity)

(* A new instance on the same files; its growth ledger starts empty.  A    *)
(* line that does not parse makes the constructor throw.                   *)
Reopen ==
    /\ Parses(etchFile) /\ Parses(auditFile)
    /\ Upset
    /\ etches' = Hydrate(Texts(etchFile))
    /\ audit' = Hydrate(Texts(auditFile))
    /\ growth' = <<>>
    /\ since' = <<>>
    /\ UNCHANGED <<etchFile, auditFile, sentOn, applied, shots, sound, cut>>

(* createSnapshot() of the backend: newest first; it throws on the same    *)
(* lines.                                                                  *)
Snapshot ==
    /\ Parses(etchFile) /\ Parses(auditFile)
    /\ Upset
    /\ shots' = shots \cup {[etches |-> Reverse(Texts(etchFile)),
                             audit |-> Reverse(Texts(auditFile))]}
    /\ UNCHANGED <<etches, audit, growth, etchFile, auditFile, sentOn, applied, sound, cut, since>>

(* restoreFromSnapshot(): both files are emptied, then the lists written   *)
(* in the order they have, the etches first; the disk may stop it at any   *)
(* line or within it.  The open instance does not notice.                  *)
RestoreEtches(shot) ==
    /\ sound' = FALSE
    /\ \/ /\ etchFile' = Written(shot.etches) /\ auditFile' = Written(shot.audit)
          /\ UNCHANGED <<upsets, cut>>
       \/ etchFile' \in Stopped(shot.etches) /\ auditFile' = <<>> /\ Upset /\ UNCHANGED cut
       \/ /\ etchFile' = Written(shot.etches) /\ auditFile' \in Stopped(shot.audit)
          /\ Upset /\ UNCHANGED cut
       \/ etchFile' = <<>> /\ Upset /\ cut' = TRUE /\ UNCHANGED auditFile
    /\ UNCHANGED <<etches, audit, growth, sentOn, applied, shots, since>>

EtchStoreNext ==
    \/ \E c \in Contents : RejectEtch(c) \/ Commit(c)
    \/ Celebrate \/ Reopen \/ Snapshot
    \/ \E shot \in shots : RestoreEtches(shot)

EtchStoreSpec == EtchStoreInit /\ [][EtchStoreNext]_etchStoreVars

-----------------------------------------------------------------------------
(* Properties. *)

(* What a ring shows of a list, with holes where it holds something else, *)
(* is the newest of the list, in order: its n-th newest is the list's.     *)
Hole == [nothing |-> TRUE]
ShowsNewest(shown, list) ==
    \A i \in DOMAIN shown :
        shown[i] # Hole =>
            LET n == Cardinality({shown[k] : k \in i..Len(shown)} \ {Hole})
            IN  n <= Len(list) /\ list[Len(list) - n + 1] = shown[i]

CommitsOfAudit == [i \in DOMAIN audit |-> IF audit[i].committed THEN audit[i] ELSE Hole]
CommitsOfGrowth ==
    [i \in DOMAIN growth |-> IF growth[i].of.kind = "etch" THEN growth[i].of.record ELSE Hole]

(* Over restarts, and while the disk holds, the ring of etches is the      *)
(* newest part of its file and the commits still in the audit ring, which  *)
(* rejections push out earlier, are the newest of those etches.            *)
RingsFollowTheFile ==
    sound => /\ etches = NewestOf(Texts(etchFile), EtchCapacity)
             /\ ShowsNewest(CommitsOfAudit, etches)

(* However often the store is reopened, snapped and restored, and whatever *)
(* appends failed before or after a part was written, an audit line on     *)
(* disk has its etch on disk as long as the file of etches parses; only a  *)
(* restore stopped between emptying the two files breaks this.  (In a file *)
(* that does not parse an etch may be glued to the end of a torn line      *)
(* while its audit line is whole.)                                         *)
AuditFileWithinEtchFile ==
    ~cut /\ Parses(etchFile) =>
        \A i \in DOMAIN auditFile :
            auditFile[i].text # Scrap =>
                \E j \in DOMAIN etchFile : etchFile[j].text = auditFile[i].text

(* The growth ledger is one chain, and what it holds of this instance's    *)
(* commits are the newest of them, in order, whatever is celebrated in     *)
(* between.                                                                *)
GrowthFollowsCommits ==
    /\ \A i \in 2..Len(growth) : growth[i].parent = growth[i - 1].hash
    /\ ShowsNewest(CommitsOfGrowth, since)

(* The rings and the audit file follow the file of etches, and the growth  *)
(* ledger follows the commits, whatever fails, reopens or is restored.     *)
EtchStoreInv ==
    EtchStoreTypeOK /\ RingsFollowTheFile /\ AuditFileWithinEtchFile /\ GrowthFollowsCommits
=============================================================================
