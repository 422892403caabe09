-------------------------------- MODULE Stream --------------------------------
(***************************************************************************)
(* gitlab.StreamAll and the loops that read from it (CollectAll,           *)
(* scanGroupProjects and scanInstanceProjects): a producer goroutine       *)
(* fetches pages and sends the items through a buffered channel.           *)
(*                                                                         *)
(* The server lists the ids that are live, in ascending order, a page of   *)
(* PerPage at a time; ids can be deleted between two fetches.  It answers  *)
(* a keyset request with the ids above id_after and a Link to the next     *)
(* page (its id_after is the last id of the page), a page request with the *)
(* page of that number; it may refuse a keyset request with a 400.  The    *)
(* listings of groups send id_after as page_token, which a server may not  *)
(* know: it may also answer with the first page again, and with a link     *)
(* that does not advance or has no id_after.  A server whose links go on   *)
(* for ever is left out: the loop would follow them.                       *)
(***************************************************************************)
EXTENDS Integers, Sequences, FiniteSets

CONSTANTS Ids,         \* the ids the server lists at the start
          PerPage,     \* the size of a page
          BufferSize,  \* the capacity of the channel
          MaxDeletes   \* bound: ids deleted while the stream runs

ASSUME StreamAssumption ==
  /\ IsFiniteSet(Ids) /\ Ids \subseteq Nat \ {0}
  /\ PerPage \in Nat \ {0} /\ BufferSize \in Nat \ {0} /\ MaxDeletes \in Nat

VARIABLES
  reader,          \* which loop reads: "range" (CollectAll, a group scan) reads
                   \* to an error or the end, "instance" (scanInstanceProjects)
                   \* also leaves when it sees the context done
  live,            \* the ids on the server
  cancelled,       \* ctx is done
  mode, page, idAfter,  \* currentOpt
  ppc,             \* where the producer is
  batch, next,     \* the items of the page still to send, and its next link;
                   \* 0 stands for none, and for a link without a number
  stalled,         \* the server gave another page or link than asked for
  out,             \* the buffer of the channel; 0 stands for an error item
  failed,          \* the producer met an error
  cpc,             \* where the consumer is
  got              \* the ids the consumer took

optVars == <<mode, page, idAfter>>
vars == <<reader, live, cancelled, optVars, ppc, batch, next, stalled, out, failed, cpc, got>>

Init ==
  /\ reader \in {"range", "instance"}
  /\ live = Ids /\ cancelled = FALSE
  /\ mode = "keyset" /\ page = 1 /\ idAfter = 0
  /\ ppc = "check" /\ batch = {} /\ next = 0 /\ stalled = FALSE
  /\ out = <<>> /\ failed = FALSE
  /\ cpc = "reading" /\ got = {}

-----------------------------------------------------------------------------
(* The answers of the server: the ids of a page, and the link to the next. *)
Below(i)   == Cardinality({j \in live : j < i})
KeysetPage == {i \in live : i > idAfter /\ Cardinality({j \in live : idAfter < j /\ j < i}) < PerPage}
NumberPage == {i \in live : Below(i) \div PerPage = page - 1}
LastOf(S)  == CHOOSE i \in S : \A j \in S : j <= i
FirstOf(S) == CHOOSE i \in S : \A j \in S : i <= j
HasMore(S) == S # {} /\ \E i \in live : i > LastOf(S)

(* Mutation: the keyset link is one too far. *)
NextLinkTooFar(items) ==
  IF ~HasMore(items) THEN 0 ELSE IF mode = "keyset" THEN LastOf(items) + 1 ELSE page + 1
NextLink(items) ==
  IF ~HasMore(items) THEN 0 ELSE IF mode = "keyset" THEN LastOf(items) ELSE page + 1

(* What the server answers when it does as it is asked, and when it does   *)
(* not know the position: the page, or the first one again, with a link to *)
(* the position asked for, to one before it, or without a number.          *)
Asked       == IF mode = "keyset" THEN KeysetPage ELSE NumberPage
FirstPage   == {i \in live : Below(i) < PerPage}
Position    == IF mode = "keyset" THEN idAfter ELSE page
RightAnswer == [items |-> Asked, next |-> NextLink(Asked)]
StalledAnswers == {[items |-> S, next |-> n] : S \in {Asked, FirstPage}, n \in 0..Position}

HasRoom == Len(out) < BufferSize

(* The select at the top of the loop. *)
CheckContext ==
  /\ ppc = "check"
  /\ ppc' = IF cancelled THEN "sendErr" ELSE "fetch"
  /\ failed' = (failed \/ cancelled)
  /\ UNCHANGED <<reader, live, cancelled, optVars, batch, next, stalled, out, cpc, got>>

(* The fetcher returns a page; ParsePageResponse reads its link.  An empty *)
(* page has no next one: the loop returns.                                 *)
FetchPage ==
  /\ ppc = "fetch"
  /\ \E a \in {RightAnswer} \cup StalledAnswers :
       /\ batch' = a.items
       /\ next' = IF a.items = {} THEN 0 ELSE a.next
       /\ stalled' = (stalled \/ a # RightAnswer)
  /\ ppc' = "send"
  /\ UNCHANGED <<reader, live, cancelled, optVars, out, failed, cpc, got>>

(* The fetcher fails, and no fallback is possible. *)
FetchFails ==
  /\ ppc = "fetch"
  /\ ppc' = "sendErr" /\ failed' = TRUE
  /\ UNCHANGED <<reader, live, cancelled, optVars, batch, next, stalled, out, cpc, got>>

(* A 400 to a keyset request: start again with numbered pages. *)
Fallback ==
  /\ ppc = "fetch" /\ mode = "keyset"
  /\ mode' = "page" /\ page' = 1 /\ idAfter' = 0
  /\ ppc' = "check"
  /\ UNCHANGED <<reader, live, cancelled, batch, next, stalled, out, failed, cpc, got>>

SendItem ==
  /\ ppc = "send" /\ batch # {}
  /\ HasRoom
  /\ out' = Append(out, FirstOf(batch))
  /\ batch' = batch \ {FirstOf(batch)}
  /\ UNCHANGED <<reader, live, cancelled, optVars, ppc, next, stalled, failed, cpc, got>>

SendCancelled ==
  /\ ppc = "send" /\ batch # {} /\ cancelled
  /\ ppc' = "sendErr" /\ failed' = TRUE
  /\ UNCHANGED <<reader, live, cancelled, optVars, batch, next, stalled, out, cpc, got>>

(* Mutation: any link is followed. *)
NextPageAnyway ==
  /\ ppc = "send" /\ batch = {}
  /\ IF next = 0 THEN ppc' = "closed" /\ UNCHANGED optVars
     ELSE /\ ppc' = "check" /\ mode' = mode
          /\ IF mode = "keyset" THEN idAfter' = next /\ page' = page
                                 ELSE page' = next /\ idAfter' = idAfter
  /\ UNCHANGED <<reader, live, cancelled, batch, next, stalled, out, failed, cpc, got>>

(* The page is sent: go to the next one, or return and close the channel.  *)
(* A link that does not advance, or has no number, ends the stream as if   *)
(* there were no more.                                                     *)
NextPage ==
  /\ ppc = "send" /\ batch = {}
  /\ IF mode = "keyset" /\ next > idAfter
       THEN ppc' = "check" /\ idAfter' = next /\ UNCHANGED <<mode, page>>
     ELSE IF mode = "page" /\ next > page
       THEN ppc' = "check" /\ page' = next /\ UNCHANGED <<mode, idAfter>>
     ELSE ppc' = "closed" /\ UNCHANGED optVars
  /\ UNCHANGED <<reader, live, cancelled, batch, next, stalled, out, failed, cpc, got>>

(* Mutation: an error that finds the channel full is dropped. *)
SendErrorOrDrop ==
  /\ ppc = "sendErr"
  /\ out' = IF HasRoom THEN Append(out, 0) ELSE out
  /\ ppc' = "closed"
  /\ UNCHANGED <<reader, live, cancelled, optVars, batch, next, stalled, failed, cpc, got>>

(* out <- StreamItem{Err: ...}: it waits for room whatever the context says. *)
SendError ==
  /\ ppc = "sendErr"
  /\ HasRoom
  /\ out' = Append(out, 0)
  /\ ppc' = "closed"
  /\ UNCHANGED <<reader, live, cancelled, optVars, batch, next, stalled, failed, cpc, got>>

-----------------------------------------------------------------------------
(* for item := range ch: one received item, or the end of the channel. *)
Receive ==
  /\ cpc = "reading" /\ out # <<>>
  /\ out' = Tail(out)
  /\ IF (reader = "instance" /\ cancelled) \/ Head(out) = 0
       THEN cpc' = "failed" /\ UNCHANGED got
       ELSE got' = got \cup {Head(out)} /\ UNCHANGED cpc
  /\ UNCHANGED <<reader, live, cancelled, optVars, ppc, batch, next, stalled, failed>>

Finish ==
  /\ cpc = "reading" /\ out = <<>> /\ ppc = "closed"
  /\ cpc' = "finished"
  /\ UNCHANGED <<reader, live, cancelled, optVars, ppc, batch, next, stalled, out, failed, got>>

Cancel ==
  /\ ~cancelled /\ cancelled' = TRUE
  /\ UNCHANGED <<reader, live, optVars, ppc, batch, next, stalled, out, failed, cpc, got>>

Delete(i) ==
  /\ i \in live /\ Cardinality(Ids \ live) < MaxDeletes
  /\ live' = live \ {i}
  /\ UNCHANGED <<reader, cancelled, optVars, ppc, batch, next, stalled, out, failed, cpc, got>>

Producer == \/ CheckContext \/ FetchPage \/ FetchFails \/ Fallback
            \/ SendItem \/ SendCancelled \/ NextPage \/ SendError
Reader == Receive \/ Finish

Next == Producer \/ Reader \/ Cancel \/ \E i \in Ids : Delete(i)

Spec == Init /\ [][Next]_vars

(* Both goroutines are scheduled and every fetch ends. *)
FairSpec == Spec /\ WF_vars(Producer) /\ WF_vars(Reader)

-----------------------------------------------------------------------------
(* The server gave the pages and links it was asked for; and numbered      *)
(* pages did not shift under the stream.                                   *)
Exact == ~stalled /\ (mode = "keyset" \/ live = Ids)

(* A reader that comes to the end of the stream without an error has every *)
(* id that was there all the time, though others were deleted between the  *)
(* pages, if the server followed the position (a link that does not        *)
(* advance ends the stream without an error); with numbered pages only if  *)
(* none was deleted.                                                       *)
StreamComplete == cpc = "finished" /\ Exact => live \subseteq got

(* A stream that was cut short by an error or a cancellation never looks   *)
(* complete to its reader.                                                 *)
NoSilentTruncation == cpc = "finished" => ~failed

(* The reader ends, and so does the producer, also when the server repeats *)
(* a page or a link that does not advance, or refuses the keyset half way; *)
(* the one producer that may stay behind, blocked on the send of its       *)
(* error, is that of an instance scan which was cancelled.                 *)
StreamEnds ==
  <>(/\ cpc # "reading"
     /\ ppc = "closed" \/ (reader = "instance" /\ cancelled))
=============================================================================
