-------------------------------- MODULE Push --------------------------------
(***************************************************************************)
(* Push notifications: the table push_tokens (push/store.go), the client   *)
(* of the Expo service (push/expo.go) and the broadcast an administrator   *)
(* sends with it (admin/broadcasts.go).                                    *)
(*                                                                         *)
(* A step is one SQL statement or one request to Expo.  Expo and the       *)
(* devices are external: a ticket is "ok", an error, or, for a device that *)
(* dropped its token, DeviceNotRegistered.  An answer holds any number of  *)
(* tickets, the code compares it with nothing; when there is one for every *)
(* message, the tickets are in the order of the messages.  A request, its  *)
(* answer or a statement may fail, and all of them do once the deadline of *)
(* the broadcast has passed.                                               *)
(***************************************************************************)
EXTENDS Integers, FiniteSets, Sequences

CONSTANTS
  Token,          \* device tokens
  Holder,         \* users
  NoHolder,       \* no row for the token
  expoBatchSize,  \* messages per request
  MaxTickets      \* bound: tickets in an answer

ASSUME PushAssumption ==
  /\ expoBatchSize \in Nat \ {0}
  /\ MaxTickets \in Nat
  /\ NoHolder \notin Holder
  /\ IsFiniteSet(Token)

VARIABLES
  tokens,  \* push_tokens: the user of every registered token
  dead,    \* external: tokens Expo no longer delivers to
  job,     \* broadcastSend
  newest   \* the row of broadcasts the latest broadcast inserted, if it has

pushVars == <<tokens, dead, job, newest>>

Registered == {t \in Token : tokens[t] # NoHolder}

\* The rows of push_tokens in some order.
Listing(T) == CHOOSE f \in [1..Cardinality(T) -> T] : \A i, j \in DOMAIN f : f[i] = f[j] => i = j

\* The last four are history: the tokens given to c.send, in order; those
\* registered since Expo said they are gone; the tickets that were missing, less those
\* there were too many; and the tokens of batches whose answer had another
\* number of tickets than messages.
NoJob == [pc |-> "idle", list |-> <<>>, start |-> 0, delivered |-> 0, failed |-> 0,
          invalid |-> {}, expired |-> FALSE, handed |-> <<>>, saved |-> {}, gap |-> 0,
          unmatched |-> {}]

\* gap is history here too.
NoRow == [recipients |-> 0, delivered |-> 0, failed |-> 0, gap |-> 0]

PushInit ==
  /\ tokens = [t \in Token |-> NoHolder]
  /\ dead = {}
  /\ job = NoJob
  /\ newest = NoRow

----------------------------------------------------------------------------
(* The table *)

\* Save and Upsert: a token belongs to the user who registered it last.
Save(t, u) ==
  /\ tokens' = [tokens EXCEPT ![t] = u]
  /\ dead' = dead \ {t}
  /\ job' = [job EXCEPT !.saved = @ \cup ({t} \cap job.invalid)]
  /\ UNCHANGED newest

\* The rows of a purged user go with it.
PurgeHolder(u) ==
  /\ tokens' = [t \in Token |-> IF tokens[t] = u THEN NoHolder ELSE tokens[t]]
  /\ UNCHANGED <<dead, job, newest>>

\* The app is removed from a device.
Uninstall(t) ==
  /\ t \notin dead
  /\ dead' = dead \cup {t}
  /\ UNCHANGED <<tokens, job, newest>>

----------------------------------------------------------------------------
(* broadcastSend *)

\* AllTokens; with no device there is nothing to do.
AllTokens ==
  /\ job.pc = "idle"
  /\ Registered # {}
  /\ job' = [NoJob EXCEPT !.pc = "send", !.list = Listing(Registered)]
  /\ newest' = NoRow
  /\ UNCHANGED <<tokens, dead>>

\* The sixty seconds are over.
Expire ==
  /\ job.pc # "idle" /\ ~ job.expired
  /\ job' = [job EXCEPT !.expired = TRUE]
  /\ UNCHANGED <<tokens, dead, newest>>

\* The bounds of the batch that starts at start.
BatchEnd == IF job.start + expoBatchSize > Len(job.list)
            THEN Len(job.list) ELSE job.start + expoBatchSize
Batch == SubSeq(job.list, job.start + 1, BatchEnd)

\* Variant: batches overlap by one message.
NextStart_overlaps ==
  IF job.start + expoBatchSize > Len(job.list) THEN job.start + expoBatchSize
  ELSE job.start + expoBatchSize - 1

\* The loop's increment, on every path.
NextStart == job.start + expoBatchSize

\* Variant: a batch that failed is tried again.
SendFails_retries ==
  /\ job.pc = "send" /\ job.start < Len(job.list)
  /\ UNCHANGED pushVars

\* Variant: a batch that failed is not counted.
SendFails_uncounted ==
  /\ job.pc = "send" /\ job.start < Len(job.list)
  /\ job' = [job EXCEPT !.start = NextStart, !.handed = @ \o Batch]
  /\ UNCHANGED <<tokens, dead, newest>>

\* The request or its answer is lost, or Expo refuses the batch; whether the
\* devices were notified is not known.
SendFails ==
  /\ job.pc = "send" /\ job.start < Len(job.list)
  /\ job' = [job EXCEPT !.start = NextStart, !.handed = @ \o Batch,
                        !.failed = @ + Len(Batch)]
  /\ UNCHANGED <<tokens, dead, newest>>

\* Variant: the ticket's index is taken for an index of the whole list.
Invalid_wholeList(unregistered) == {job.list[i] : i \in {j \in unregistered : j <= Len(Batch)}}

\* The tokens of the tickets that say DeviceNotRegistered, as far as there are
\* messages.
Invalid(unregistered) == {Batch[i] : i \in {j \in unregistered : j <= Len(Batch)}}

\* n tickets come back; those at the indices refused are not "ok" and those at
\* unregistered say DeviceNotRegistered.  With a ticket for every message that is
\* what Expo says of its device; otherwise nothing tells whose the tickets are.
SendTickets(n, refused, unregistered) ==
  /\ job.pc = "send" /\ job.start < Len(job.list)
  /\ ~ job.expired
  /\ refused \subseteq 1..n /\ unregistered \subseteq refused
  /\ n = Len(Batch) => unregistered = {i \in 1..n : Batch[i] \in dead}
  /\ job' = [job EXCEPT !.start = NextStart, !.handed = @ \o Batch,
                        !.delivered = @ + n - Cardinality(refused),
                        !.failed = @ + Cardinality(refused),
                        !.invalid = @ \cup Invalid(unregistered),
                        !.gap = @ + Len(Batch) - n,
                        !.unmatched = @ \cup IF n = Len(Batch) THEN {}
                                             ELSE {Batch[i] : i \in 1..Len(Batch)}]
  /\ UNCHANGED <<tokens, dead, newest>>

SendDone ==
  /\ job.pc = "send" /\ job.start >= Len(job.list)
  /\ job' = [job EXCEPT !.pc = IF job.invalid = {} THEN "insert" ELSE "prune"]
  /\ UNCHANGED <<tokens, dead, newest>>

\* DeleteTokens; its error is dropped.
DeleteTokens(fails) ==
  /\ job.pc = "prune"
  /\ job.expired => fails
  /\ tokens' = [t \in Token |-> IF ~ fails /\ t \in job.invalid THEN NoHolder ELSE tokens[t]]
  /\ job' = [job EXCEPT !.pc = "insert"]
  /\ UNCHANGED <<dead, newest>>

\* The INSERT into broadcasts; without it the administrator sees an error.
InsertBroadcast(fails) ==
  /\ job.pc = "insert"
  /\ job.expired => fails
  /\ newest' = IF fails THEN newest
               ELSE [recipients |-> Len(job.list), delivered |-> job.delivered,
                     failed |-> job.failed, gap |-> job.gap]
  /\ job' = NoJob
  /\ UNCHANGED <<tokens, dead>>

----------------------------------------------------------------------------
JobStep ==
  \/ SendFails \/ SendDone
  \/ \E n \in 0..MaxTickets : \E refused \in SUBSET (1..n) :
       \E unregistered \in SUBSET refused : SendTickets(n, refused, unregistered)
  \/ \E fails \in BOOLEAN : DeleteTokens(fails) \/ InsertBroadcast(fails)

PushNext ==
  \/ AllTokens \/ Expire \/ JobStep
  \/ \E t \in Token : Uninstall(t) \/ \E u \in Holder : Save(t, u)
  \/ \E u \in Holder : PurgeHolder(u)

PushSpec == PushInit /\ [][PushNext]_pushVars

\* The handler goes on; a request ends within expoHTTPTimeout.
PushFairness == WF_pushVars(JobStep)

----------------------------------------------------------------------------
(* Properties *)

Job == [pc : {"idle", "send", "prune", "insert"}, list : Seq(Token), start : Nat,
        delivered : Nat, failed : Nat, invalid : SUBSET Token, expired : BOOLEAN,
        handed : Seq(Token), saved : SUBSET Token, gap : Int, unmatched : SUBSET Token]

PushTypeOK ==
  /\ tokens \in [Token -> Holder \cup {NoHolder}]
  /\ dead \subseteq Token
  /\ job \in Job
  /\ newest \in [recipients : Nat, delivered : Nat, failed : Nat, gap : Int]

\* A broadcast that is recorded accounts for every recipient, whichever batches
\* failed, also when the deadline struck between them: delivered and failed make
\* up the recipients but for the tickets Expo left out or added, and exactly when
\* every answer has a ticket for every message.  Nothing else is lost or counted
\* twice; expo.go counts tickets and never compares them with the batch.
RecordsAddUp == newest.delivered + newest.failed + newest.gap = newest.recipients

\* No device is notified twice by one broadcast and none is left out: the
\* batches cut the list into pieces (expo.go's loop, with a last short batch).
EachTokenOnce ==
  /\ \A i, j \in DOMAIN job.handed : job.handed[i] = job.handed[j] => i = j
  /\ job.pc \in {"prune", "insert"} => job.handed = job.list

\* Only tokens of devices that are gone are pruned, with two exceptions: one
\* registered again since Expo's answer ("we tolerate concurrent inserts"), and one
\* of a batch whose answer had another number of tickets, where the index of a
\* ticket need not be that of its message.
PrunedTokensAreDead == job.invalid \subseteq dead \cup job.saved \cup job.unmatched

\* Every broadcast comes to an end, also when Expo answers nothing.
BroadcastsEnd == job.pc # "idle" ~> job.pc = "idle"
=============================================================================
