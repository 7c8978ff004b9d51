--------------------------- MODULE BrowserSessions ---------------------------
(***************************************************************************)
(* BrowserSessionStore (browser/sessions.py): one browser profile for each  *)
(* domain, with the metadata that names its session, under a lock file that *)
(* a lease holds for as long as a browser uses the profile.                 *)
(*                                                                         *)
(* An operation works under the domain's lock, so that nobody sees it half  *)
(* done while it runs, but it may stop between any two of its writes: the   *)
(* process dies, or a write fails and the operation raises.  An operation is*)
(* therefore the sequence of disks its writes lead through; a run of it     *)
(* ends on the last, or on any earlier one with a fault.  Sizes, times and  *)
(* tampered files are left out.                                             *)
(***************************************************************************)
EXTENDS Naturals, FiniteSets, SequencesExt

CONSTANTS
  Domains,
  MaxSessions,  \* max_sessions
  MaxIds,       \* bound on the sessions created: as many as there are acquisitions
  MaxFaults     \* bound on the faults

ASSUME SessionsAssumption ==
  /\ Domains # {} /\ IsFiniteSet(Domains)
  /\ MaxSessions \in Nat \ {0} /\ MaxIds \in Nat /\ MaxFaults \in Nat

VARIABLES
  disk,    \* everything under the store's root
  holder,  \* domain -> who holds its lock, or Nobody
  faults   \* how many faults there have been

sessionVars == <<disk, holder, faults>>

NONE == "none"
Nobody == 0  \* the tokens of verifications begin with 1

Statuses == {"absent", "available", "in_use", "stale", "revoked", "deleting", "damaged"}
Ids == 1..MaxIds

\* A profile directory, and the sessions whose data is in it.
NoProfile == [exists |-> FALSE, data |-> {}]

\* A tombstone, and a directory in the trash, are named by the session they bury; a
\* profile without a session goes to the trash under 0.
EmptyDisk ==
  [meta |-> [d \in Domains |-> [status |-> "absent", id |-> 0]],
   profile |-> [d \in Domains |-> NoProfile],
   tombstones |-> {}, trash |-> {},
   quarantine |-> 0,  \* files on their way out that were left there
   ids |-> 0]         \* sessions created so far

Disk == [meta : [Domains -> [status : Statuses, id : Ids \cup {0}]],
         profile : [Domains -> [exists : BOOLEAN, data : SUBSET Ids]],
         tombstones : SUBSET [id : Ids, domain : Domains],
         trash : SUBSET [id : Ids \cup {0}, data : SUBSET Ids],
         quarantine : Nat, ids : Nat]

-----------------------------------------------------------------------------
(* The writes.  Each is a disk made from a disk. *)

Status(k, d) == k.meta[d].status
SessionOf(k, d) == k.meta[d].id

_write_info(k, d, status, id) == [k EXCEPT !.meta[d] = [status |-> status, id |-> id]]

Quarantined(k, delta) == [k EXCEPT !.quarantine = @ + delta]

\* _delete_metadata moves the file to the quarantine and removes it there.
Unlinked(before, after) == IF before = after THEN <<>> ELSE <<Quarantined(after, 1), after>>

ToTrash(k, d, id) ==
  IF k.profile[d].exists
  THEN [k EXCEPT !.profile[d] = NoProfile, !.trash = @ \cup {[id |-> id, data |-> k.profile[d].data]}]
  ELSE k

Emptied(k, id) == [k EXCEPT !.trash = {dir \in @ : dir.id # id}]

\* Profile, metadata and tombstone go, in this order.
_complete_deletion(k, d, id) ==
  LET k1 == IF \E dir \in k.trash : dir.id = id THEN k ELSE ToTrash(k, d, id)
      k2 == Emptied(k1, id)
      k3 == [k2 EXCEPT !.meta[d] = [status |-> "absent", id |-> 0]]
      k4 == [k3 EXCEPT !.tombstones = {t \in @ : t.id # id}] IN
  <<k1, k2>> \o Unlinked(k2, k3) \o Unlinked(k3, k4)

\* A session is deleted: what was begun is on record before anything is moved.
Deletion(k, d) ==
  LET id == SessionOf(k, d)
      k1 == _write_info(k, d, "deleting", id)
      k2 == [k1 EXCEPT !.tombstones = @ \cup {[id |-> id, domain |-> d]}] IN
  <<k1, k2>> \o _complete_deletion(k2, d, id)

\* Whoever reads the metadata for writing completes a deletion that was begun, and puts
\* metadata that cannot be read in the quarantine.
_read_info(k, d) ==
  CASE Status(k, d) = "deleting" -> _complete_deletion(k, d, SessionOf(k, d))
    [] Status(k, d) = "damaged" -> <<Quarantined(_write_info(k, d, "absent", 0), 1)>>
    [] OTHER -> <<>>

End(k, seq) == IF seq = <<>> THEN k ELSE Last(seq)

\* Mutant: a new session takes the directory it finds.
NewProfile_kept(k, d) == <<[k EXCEPT !.profile[d].exists = TRUE]>>

\* Whatever is in the way is removed, and an empty directory made.
NewProfile(k, d) ==
  LET k1 == ToTrash(k, d, 0)
      k2 == IF k.profile[d].exists THEN Emptied(k1, 0) ELSE k1 IN
  <<k1, k2, [k2 EXCEPT !.profile[d] = [exists |-> TRUE, data |-> {}]]>>

\* The names that count against max_sessions: files left in the quarantine count for ever.
Reservations(k, d) ==
  Cardinality({e \in Domains \ {d} : Status(k, e) # "absent" \/ k.profile[e].exists})
    + Cardinality(k.tombstones) + Cardinality(k.trash) + k.quarantine

\* What _acquire_once may not go on with.
Refused(k, d) ==
  \/ Status(k, d) = "revoked"
  \/ Status(k, d) \in {"absent", "stale", "deleting", "damaged"} /\ Reservations(k, d) >= MaxSessions
  \/ Status(k, d) \in {"available", "in_use"} /\ ~ k.profile[d].exists

\* A session that is there is leased; a stale one is deleted and another takes its place.
\* The browser leaves the session's data in the profile.
_acquire_once(k, d) ==
  LET gone == IF Status(k, d) = "stale" THEN Deletion(k, d) ELSE _read_info(k, d)
      k1 == End(k, gone)
      new == IF Status(k1, d) = "absent" THEN NewProfile(k1, d) ELSE <<>>
      k2 == End(k1, new)
      id == IF new = <<>> THEN SessionOf(k2, d) ELSE k.ids + 1
      leased == [_write_info(k2, d, "in_use", id) EXCEPT
                   !.ids = IF new = <<>> THEN @ ELSE id, !.profile[d].data = @ \cup {id}] IN
  gone \o new \o <<leased>>

-----------------------------------------------------------------------------
(* Recovery, when the store is opened. *)

\* The disks a sequence of writes may be left with by a fault.
Leftovers(k, seq) == {k} \cup {seq[i] : i \in 1..(Len(seq) - 1)}

Whole(k, seq) == {[disk |-> End(k, seq), faults |-> 0]}
Broken(k, seq) == IF seq = <<>> THEN {} ELSE {[disk |-> j, faults |-> 1] : j \in Leftovers(k, seq)}

\* One part of the recovery after another, each from what those before it may have left.
After(results, Part(_)) ==
  UNION {{[disk |-> s.disk, faults |-> s.faults + r.faults] : s \in Part(r.disk)} : r \in results}

\* Deletions the metadata names; one that fails is passed over.
RecoverMetadata(k, d) ==
  LET seq == IF Status(k, d) = "deleting" THEN _read_info(k, d) ELSE <<>> IN
  Whole(k, seq) \cup Broken(k, seq)

\* Deletions a tombstone names, which goes to the quarantine if the deletion fails.
RecoverTombstone(k, t) ==
  LET seq == _complete_deletion(k, t.domain, t.id)
      Aside(j) == IF t \in j.tombstones THEN Quarantined([j EXCEPT !.tombstones = @ \ {t}], 1) ELSE j IN
  Whole(k, seq) \cup {[r EXCEPT !.disk = Aside(r.disk)] : r \in Broken(k, seq)}

\* Profiles without metadata.
RecoverProfile(k, d) ==
  IF Status(k, d) = "absent" /\ k.profile[d].exists
  THEN Whole(k, <<ToTrash(k, d, 0), Emptied(ToTrash(k, d, 0), 0)>>)
  ELSE Whole(k, <<>>)

\* All of it, or the process dies after some part.
_recover_deletions(k) ==
  LET OverDomains(Part(_, _), results) ==
        FoldLeft(LAMBDA acc, d : After(acc, LAMBDA j : Part(j, d)), results, SetToSeq(Domains))
      OverTombstones(j) ==
        FoldLeft(LAMBDA acc, t : After(acc, LAMBDA i : RecoverTombstone(i, t)),
                 Whole(j, <<>>), SetToSeq(j.tombstones))
      r1 == OverDomains(RecoverMetadata, Whole(k, <<>>))
      r2 == After(r1, OverTombstones)
      r3 == OverDomains(RecoverProfile, r2) IN
  After(r3, LAMBDA j : Whole(j, <<[j EXCEPT !.trash = {}]>>))
    \cup {[r EXCEPT !.faults = @ + 1] : r \in r1 \cup r2 \cup r3}

-----------------------------------------------------------------------------
(* The operations on an idle domain: each ends well, or with a fault. *)

Unused(d) == holder[d] = Nobody
Fault == faults < MaxFaults /\ faults' = faults + 1

Ends(seq) == disk' = End(disk, seq) /\ UNCHANGED faults
Breaks(seq) == seq # <<>> /\ Fault /\ disk' \in Leftovers(disk, seq)

\* mark_stale and revoke find no session, or change its status, whatever it is.
_set_status(d, status) ==
  /\ Unused(d)
  /\ LET seq == _read_info(disk, d) \o
                  IF Status(disk, d) \in {"absent", "deleting", "damaged"} THEN <<>>
                  ELSE <<_write_info(disk, d, status, SessionOf(disk, d))>> IN
       Ends(seq) \/ Breaks(seq)
  /\ UNCHANGED holder

\* clear with the session's own id.
clear(d) ==
  /\ Unused(d)
  /\ LET seq == IF Status(disk, d) \in {"absent", "deleting", "damaged"} THEN _read_info(disk, d)
                ELSE Deletion(disk, d) IN
       Ends(seq) \/ Breaks(seq)
  /\ UNCHANGED holder

\* A store is opened on the same root, by this process or another.  A recovery that has to
\* do with a domain whose lock is held gives up.
open_store ==
  /\ \A d \in Domains :
       \/ Unused(d)
       \/ Status(disk, d) # "deleting" /\ \A t \in disk.tombstones : t.domain # d
  /\ \E r \in _recover_deletions(disk) :
       /\ faults + r.faults <= MaxFaults
       /\ disk' = r.disk /\ faults' = faults + r.faults
  /\ UNCHANGED holder

\* The metadata of an idle domain comes to harm.
damage(d) ==
  /\ Unused(d) /\ Status(disk, d) \in {"available", "stale", "revoked", "in_use"} /\ Fault
  /\ disk' = _write_info(disk, d, "damaged", 0)
  /\ UNCHANGED holder

-----------------------------------------------------------------------------
(* What a lease's holder does. *)

\* acquire, for a holder of the domain's lock.  One that raises gives the lock back.
Acquires(d, p) ==
  /\ Unused(d) /\ ~ Refused(disk, d)
  /\ Ends(_acquire_once(disk, d))
  /\ holder' = [holder EXCEPT ![d] = p]

AcquireFails(d) ==
  \/ /\ ~ Unused(d) \/ Refused(disk, d)
     /\ UNCHANGED sessionVars
  \/ /\ Unused(d) /\ ~ Refused(disk, d)
     /\ Breaks(_acquire_once(disk, d))
     /\ UNCHANGED holder

\* The lease is of a session by that id.
Current(d, id) == SessionOf(disk, d) = id /\ Status(disk, d) = "in_use"

close(d, id) ==
  /\ disk' = IF Current(d, id) THEN _write_info(disk, d, "available", id) ELSE disk
  /\ holder' = [holder EXCEPT ![d] = Nobody]
  /\ UNCHANGED faults

\* release_failed: the lease is kept, and closing it may be tried again.
close_fails(d, id) == Current(d, id) /\ Fault /\ UNCHANGED <<disk, holder>>

\* A session that is not in use by this lease is left alone, and so is one that cannot be written.
mark_stale(d, id) ==
  /\ \/ disk' = (IF Current(d, id) THEN _write_info(disk, d, "stale", id) ELSE disk) /\ UNCHANGED faults
     \/ Current(d, id) /\ Fault /\ UNCHANGED disk
  /\ UNCHANGED holder

=============================================================================
