------------------------------- MODULE WebGet -------------------------------
(***************************************************************************)
(* WebGET sessions: a participant that can only follow links submits its   *)
(* contribution in chunks under a token and commits it.  The sessions are  *)
(* in the daemon's memory, the contribution goes to the ledger through     *)
(* submitSealedContribution, like one posted over HTTP.                    *)
(*                                                                         *)
(* A chunk is one of a few data values; the content of a submission is the *)
(* sequence of its chunks.  That a committed content has the length, the   *)
(* hash and the form it should is a condition under which a commit is made.*)
(***************************************************************************)
EXTENDS ResourceAccess

CONSTANTS Tokens,     \* generated once each
          Data,       \* what a chunk holds
          MaxChunks   \* WEBGET_MAX_CHUNK_COUNT

ASSUME MaxChunksAssumption == MaxChunks \in Nat \ {0}

\* The key of a commit is one.
ASSUME CommitKeyAssumption == \A p \in Participants \cup {NoKey} : <<"webget", p>> # NoKey

VARIABLE webget   \* webget[t]: the stored session of token t

NoSession == [status |-> "unused", participant |-> NoKey, chunks |-> <<>>,
              expiresAt |-> 0, committed |-> FALSE, reports |-> {}]

WebGetInit == webget = [t \in Tokens |-> NoSession]

-----------------------------------------------------------------------------
\* createSession, for a participant of the batch.
CreateSession(t, p) ==
  /\ webget[t].status = "unused"
  /\ webget' = [webget EXCEPT ![t] = [NoSession EXCEPT !.status = "active", !.participant = p,
                                                       !.expiresAt = now + Ttl]]
  /\ UNCHANGED <<log, grants, handed, now, published, stream>>

\* getActiveSession.
Active(t) == webget[t].status = "active" /\ now < webget[t].expiresAt

SessionExpires(t) ==
  /\ webget[t].status = "active" /\ webget[t].expiresAt <= now
  /\ webget' = [webget EXCEPT ![t] = [NoSession EXCEPT !.status = "gone"]]
  /\ UNCHANGED <<log, grants, handed, now, published, stream>>

(***************************************************************************)
(* submitChunk.  chunks maps the sequence numbers submitted to the data    *)
(* and the total they came with; a chunk repeated as it was is accepted    *)
(* and changes nothing.                                                    *)
(***************************************************************************)
Chunks(t) == webget[t].chunks

SubmitChunk(t, seq, total, d) ==
  /\ Active(t) /\ ~webget[t].committed
  /\ seq <= total
  /\ seq \notin DOMAIN Chunks(t)
  /\ \A i \in DOMAIN Chunks(t) : Chunks(t)[i].total = total
  /\ webget' = [webget EXCEPT ![t].chunks = (seq :> [data |-> d, total |-> total]) @@ @]
  /\ UNCHANGED <<log, grants, handed, now, published, stream>>

\* GET /webget/:token/resources/:resourceId: a grant like that of a delivery,
\* reported in the submission instead of planned in the ledger.
ReadResource(t, g) ==
  /\ Active(t)
  /\ CreateGrant(g)
  /\ log' = AfterGrant(g, webget[t].participant)
  /\ Publish(log', Appended(log'))
  /\ handed' = handed \cup {g}
  /\ webget' = [webget EXCEPT ![t].reports = {"resource"}]
  /\ UNCHANGED now
-----------------------------------------------------------------------------
(***************************************************************************)
(* commitSubmission and submitSealedContribution.                          *)
(***************************************************************************)
IsComplete(t) ==
  LET total == Cardinality(DOMAIN Chunks(t))
  IN  /\ total > 0
      /\ DOMAIN Chunks(t) = 1..total
      /\ \A i \in 1..total : Chunks(t)[i].total = total

Content(t) == [i \in DOMAIN Chunks(t) |-> Chunks(t)[i].data]

CommitKey(t) == <<"webget", webget[t].participant>>

\* createCommittedContributionPayload.  The time of the commit is in it too, but a
\* retry is compared without it: under a second token the same content replays,
\* if the same resources were read.
CommittedContribution(t) ==
  Contribution(webget[t].participant, CommitKey(t),
               [content |-> Content(t), reports |-> webget[t].reports])

\* submitSealedContribution: the batch is open, and what the participant may
\* have contributed has the key of this one.
MayContribute(e) ==
  /\ ~IsRevealed(log)
  /\ \A i \in Contributions(log) : log[i].author = e.author => log[i].key = e.key

\* Mutant: the session is final before the contribution is appended.
Commit_FinalizedFirst(t) ==
  LET e == CommittedContribution(t)
      goes == MayContribute(e) /\ ~IsConflict(log, e)
  IN  /\ Active(t) /\ ~webget[t].committed /\ IsComplete(t)
      /\ webget' = [webget EXCEPT ![t].committed = TRUE]
      /\ log' = IF goes THEN AfterAppend(log, e) ELSE log
      /\ Publish(log', Appended(log'))
      /\ UNCHANGED <<grants, handed, now>>

\* GET /webget/:token/commit.  When the append throws nothing has changed.
Commit(t) ==
  LET e == CommittedContribution(t)
  IN  /\ Active(t) /\ ~webget[t].committed /\ IsComplete(t)
      /\ MayContribute(e) /\ ~IsConflict(log, e)
      /\ log' = AfterAppend(log, e)
      /\ webget' = [webget EXCEPT ![t].committed = TRUE]
      /\ Publish(log', Appended(log'))
      /\ UNCHANGED <<grants, handed, now>>

WebGetNext ==
  \E t \in Tokens :
    \/ \E p \in Participants : CreateSession(t, p)
    \/ SessionExpires(t)
    \/ \E total \in 1..MaxChunks, seq \in 1..MaxChunks, d \in Data :
         SubmitChunk(t, seq, total, d)
    \/ /\ Len(log) < MaxRecords
       /\ Commit(t) \/ \E g \in Accesses : ReadResource(t, g)
-----------------------------------------------------------------------------
\* A committed session has its participant's only contribution in the ledger,
\* with the content the session still has, whichever other tokens, retries,
\* direct contributions and failed appends came between.
CommittedIsRecorded ==
  \A t \in Tokens : webget[t].committed =>
    \E i \in Contributions(log) :
      /\ log[i].author = webget[t].participant
      /\ log[i].body.content = Content(t)
      /\ \A j \in Contributions(log) : log[j].author = log[i].author => j = i
=============================================================================
