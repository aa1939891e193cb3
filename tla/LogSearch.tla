----------------------------- MODULE LogSearch -----------------------------
(***************************************************************************)
(* A search in remote logs: LogService::search with its row, its entry in  *)
(* the registry and its files, the parser of the output, and the pages     *)
(* that LogResultStore hands out.  The lines of the output are reduced to  *)
(* what the parser tells apart.                                            *)
(***************************************************************************)
EXTENDS Execution, Sequences, FiniteSets

Seqs == INSTANCE SequencesExt

CONSTANTS
    SearchRuns,   \* searches; they have an execution and no operation run
    MaxLines,     \* bound on the lines of an output
    Limit         \* LogSearchRequest::limit

ASSUME SearchAssumption == SearchRuns \subseteq Run /\ MaxLines \in Nat /\ Limit \in Nat \ {0}

VARIABLES
    output,   \* the lines the command prints
    stored,   \* results.jsonl, as numbers of lines of the output
    pages     \* a reader: the next cursor, whether there is one, the items so far

searchVars == <<output, stored, pages>>

\* A match within the range of time, one outside, a line around a match
Line == {"match", "outside", "context"}

SearchInit ==
    /\ output = [r \in SearchRuns |-> <<>>]
    /\ stored = [r \in SearchRuns |-> <<>>]
    /\ pages = [r \in SearchRuns |-> [next |-> 0, more |-> TRUE, items |-> <<>>]]

Numbers(lines) == [i \in 1..Len(lines) |-> i]

\* parse_content_output: matches up to the limit; lines around a match count as
\* little as they are held to the range of time.
Parsed(lines) ==
    LET matches(kept) == Cardinality({k \in 1..Len(kept) : lines[kept[k]] = "match"})
        keep(kept, i) ==
            IF lines[i] = "context" \/ (lines[i] = "match" /\ matches(kept) < Limit)
              THEN Append(kept, i) ELSE kept
    IN  Seqs!FoldLeft(keep, <<>>, Numbers(lines))

Leave(r) == Move(r, "returned")

-----------------------------------------------------------------------------

\* The row is created, and marked running, and the token registered, before the
\* server is asked for: a cancellation waits for the connection.
CreateSearch(r) ==
    /\ At(r, "idle")
    /\ exec' = [exec EXCEPT ![r] = "queued"] /\ Move(r, "search")
    /\ UNCHANGED <<run, token, parent, end, remote, failures, searchVars>>

MarkSearch(r) ==
    /\ At(r, "search")
    /\ \/ /\ exec' = [exec EXCEPT ![r] = "running"]
          /\ token' = [token EXCEPT ![r] = "live"]
          /\ Move(r, "dial") /\ UNCHANGED failures
       \/ Fails /\ Leave(r) /\ UNCHANGED <<exec, token>>
    /\ UNCHANGED <<run, parent, end, remote, searchVars>>

\* connect, and the command for the tools of the server
Dial(r) ==
    /\ At(r, "dial")
    /\ \/ Move(r, "files") /\ UNCHANGED <<token, end>>
       \/ /\ Move(r, "conclude") /\ end' = [end EXCEPT ![r] = "failed"]
          /\ token' = [token EXCEPT ![r] = "none"]
    /\ UNCHANGED <<run, exec, parent, remote, failures, searchVars>>

\* The directory and capture.tmp.  The early return leaves the entry in the
\* registry and the row "running" until the next start.
OpenCapture(r) ==
    /\ At(r, "files")
    /\ \/ Move(r, "exec") /\ UNCHANGED failures
       \/ Fails /\ Leave(r)
    /\ UNCHANGED <<run, exec, token, parent, end, remote, searchVars>>

\* execute_streaming; what has been printed is captured on the way.
Stream(r) ==
    /\ Exec(r) \/ ExitStatus(r) \/ ChannelCloses(r) \/ WaitFails(r) \/ CancelWait(r)
    /\ IF At(r, "wait") /\ end'[r] = "succeeded"
         THEN \E n \in 0..MaxLines : \E lines \in [1..n -> Line] :
                  output' = [output EXCEPT ![r] = lines]
         ELSE UNCHANGED output
    /\ UNCHANGED <<stored, pages>>

\* capture.flush, which returns early too, and registry.remove
Flush(r) ==
    /\ At(r, "finish")
    /\ \/ /\ token' = [token EXCEPT ![r] = "none"] /\ UNCHANGED failures
          /\ Move(r, IF end[r] = "succeeded" THEN "store" ELSE "conclude")
       \/ Fails /\ Leave(r) /\ UNCHANGED token
    /\ UNCHANGED <<run, exec, parent, end, remote, searchVars>>

\* The results are parsed, written and recorded; an error leaves the row "running".
Store(r) ==
    /\ At(r, "store")
    /\ \/ /\ stored' = [stored EXCEPT ![r] = Parsed(output[r])]
          /\ Move(r, "conclude") /\ UNCHANGED failures
       \/ Fails /\ Leave(r) /\ UNCHANGED stored
    /\ UNCHANGED <<run, exec, token, parent, end, remote, output, pages>>

\* finish_success, finish_error
Conclude(r) ==
    /\ At(r, "conclude")
    /\ \/ exec' = [exec EXCEPT ![r] = end[r]] /\ UNCHANGED failures
       \/ Fails /\ UNCHANGED exec
    /\ Leave(r)
    /\ UNCHANGED <<run, token, parent, end, remote, searchVars>>

\* Mutant: the cursor counts the items of this page only.
PageFromStart(all, offset, size) ==
    LET upto == IF offset + size < Len(all) THEN offset + size ELSE Len(all)
    IN  [items |-> SubSeq(all, offset + 1, upto),
         next  |-> upto - offset, more |-> upto < Len(all)]

\* LogResultStore::read_page
Page(all, offset, size) ==
    LET upto == IF offset + size < Len(all) THEN offset + size ELSE Len(all)
    IN  [items |-> SubSeq(all, offset + 1, upto),
         next  |-> upto, more |-> upto < Len(all)]

\* The window reads the pages of a search that has succeeded, of any size.
ReadPage(r) ==
    /\ exec[r] = "succeeded" /\ pages[r].more
    /\ \E size \in 1..2 :
         LET page == Page(stored[r], pages[r].next, size)
         IN  pages' = [pages EXCEPT ![r] = [page EXCEPT !.items = pages[r].items \o @]]
    /\ UNCHANGED <<output, stored>> /\ UNCHANGED execVars

\* The files stay.
RecoverSearches == UNCHANGED searchVars

SearchStep(r) ==
    \/ CreateSearch(r) \/ MarkSearch(r) \/ Dial(r) \/ OpenCapture(r) \/ Stream(r)
    \/ Flush(r) \/ Store(r) \/ Conclude(r) \/ ReadPage(r)

-----------------------------------------------------------------------------
(* Properties                                                               *)

\* Who reads a search page by page to the end has read, once and in order, the
\* first matches up to the limit that lie within the range of time, with every
\* line around a match, and nothing of a search that did not succeed.
PagesTellAll ==
    LET expected(lines) ==
            SelectSeq(Numbers(lines),
                LAMBDA i : \/ lines[i] = "context"
                           \/ lines[i] = "match" /\ Cardinality({j \in 1..i : lines[j] = "match"}) <= Limit)
    IN  \A r \in SearchRuns :
            /\ ~pages[r].more => pages[r].items = expected(output[r])
            /\ pages[r].items # <<>> => exec[r] = "succeeded"

\* An entry of the registry stands for a command that somebody waits for, so that
\* the idle gate opens again; the exceptions are searches whose files failed.
EntriesAreDriven ==
    \A r \in Run : token[r] # "none" =>
        \/ step[r] \in {"exec", "wait", "finish", "dial", "files"}
        \/ r \in SearchRuns /\ failures > 0

=============================================================================
