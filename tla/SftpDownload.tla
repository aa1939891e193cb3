--------------------------- MODULE SftpDownload ---------------------------
(***************************************************************************)
(* sftp::download, and the backup of a remote file that shares its second  *)
(* half, in core/sftp/transfer.rs, as seen from the local directory.  All  *)
(* downloads here have the same destination, hence the same partial path   *)
(* (local_partial_path is a function of the destination).  A path leads to *)
(* an inode; a download keeps writing to the inode it opened whatever      *)
(* happens to the path.  A block of a file is the download it came from.   *)
(***************************************************************************)
EXTENDS Naturals, Sequences, FiniteSets

CONSTANTS Download,    \* calls for one destination
          Blocks,      \* blocks of every remote file
          MaxActive,   \* how many of the calls run side by side
          MaxExits     \* bound on application exits

Absent == "absent"     \* the path leads nowhere
Before == "before"     \* the inode the destination has at first
Hole   == "hole"       \* bytes nobody wrote

ASSUME DownloadAssumption ==
    /\ {Blocks, MaxActive} \subseteq Nat \ {0} /\ MaxExits \in Nat
    /\ Download \cap {Absent, Before, Hole} = {}

VARIABLES
    dest, partial,   \* the inode each of the two paths leads to
    data,            \* data[i]: the blocks of inode i
    request,         \* request[d]: what kind of call, and with what consent
    good,            \* good[d]: the bytes d read are the ones it hashed before
    at, verdict,
    sent,            \* blocks d has written
    handle,          \* the inode d has open
    flagged,         \* flagged[d]: cancellation has been requested
    exits,
    shared           \* history: inodes a second call has opened or renamed

downloadVars == <<dest, partial, data, request, good, at, verdict, sent, handle,
                  flagged, exits, shared>>

Inodes == Download \cup {Before}

\* A backup is never asked to overwrite: its destination is new, and it always
\* compares hashes.
Requests == [kind : {"download"}, overwrite : BOOLEAN, hashed : BOOLEAN]
            \cup [kind : {"backup"}, overwrite : {TRUE}, hashed : {TRUE}]

Image(d) == [i \in 1 .. Blocks |-> d]

DownloadInit ==
    /\ dest \in {Absent, Before}
    /\ partial = Absent
    /\ data = [i \in Inodes |-> <<>>]
    /\ request \in [Download -> Requests]
    /\ good \in [Download -> BOOLEAN]
    /\ at = [d \in Download |-> "idle"]
    /\ verdict = [d \in Download |-> "none"]
    /\ sent = [d \in Download |-> 0]
    /\ handle = [d \in Download |-> Absent]
    /\ flagged = [d \in Download |-> FALSE]
    /\ exits = 0
    /\ shared = {}

Active == {d \in Download : at[d] \notin {"idle", "done"}}

Goto(d, p) == at' = [at EXCEPT ![d] = p]

\* An early return before the partial file exists.
ReturnEarly(d, why) ==
    /\ Goto(d, "done")
    /\ verdict' = [verdict EXCEPT ![d] = why]

\* download_to_partial returned an error.
Fail(d, why) ==
    /\ Goto(d, "cleanup")
    /\ verdict' = [verdict EXCEPT ![d] = why]

-----------------------------------------------------------------------------

MayStart(d) ==
    \/ dest = Absent
    \/ request[d].kind = "download" /\ request[d].overwrite

\* destination.exists() && !overwrite
CheckDestination(d) ==
    /\ at[d] = "idle"
    /\ Cardinality(Active) < MaxActive
    /\ IF MayStart(d)
       THEN Goto(d, "clear") /\ UNCHANGED verdict
       ELSE ReturnEarly(d, "exists")
    /\ UNCHANGED <<dest, partial, data, request, good, sent, handle, flagged,
                   exits, shared>>

\* partial.exists(): what an earlier call left is removed, which fails if
\* another call does the same in between.
ClearPartial(d) ==
    /\ at[d] = "clear"
    /\ \/ partial' = Absent /\ Goto(d, "hash") /\ UNCHANGED verdict
       \/ ReturnEarly(d, "error") /\ UNCHANGED partial
    /\ UNCHANGED <<dest, data, request, good, sent, handle, flagged, exits, shared>>

\* Metadata and, where one is compared, the hash of the remote file.
HashRemote(d) ==
    /\ at[d] = "hash"
    /\ \/ Goto(d, "create") /\ UNCHANGED verdict
       \/ ReturnEarly(d, "error")
       \/ flagged[d] /\ request[d].hashed /\ ReturnEarly(d, "cancelled")
    /\ UNCHANGED <<dest, partial, data, request, good, sent, handle, flagged,
                   exits, shared>>

\* File::create truncates the file that is there or makes a new one.
CreatePartial(d) ==
    LET inode == IF partial = Absent THEN d ELSE partial
    IN  /\ at[d] = "create"
        /\ partial' = inode
        /\ handle' = [handle EXCEPT ![d] = inode]
        /\ data' = [data EXCEPT ![inode] = <<>>]
        /\ shared' = shared \cup ({partial} \ {Absent})
        /\ Goto(d, "write")
        /\ UNCHANGED <<dest, request, good, verdict, sent, flagged, exits>>

\* write_all of block n + 1 at the position of this handle
Written(old, n, d) ==
    [i \in 1 .. (IF n + 1 > Len(old) THEN n + 1 ELSE Len(old)) |->
        IF i = n + 1 THEN d ELSE IF i <= Len(old) THEN old[i] ELSE Hole]

WriteBlock(d) ==
    /\ at[d] = "write" /\ sent[d] < Blocks
    /\ data' = [data EXCEPT ![handle[d]] = Written(@, sent[d], d)]
    /\ sent' = [sent EXCEPT ![d] = @ + 1]
    /\ UNCHANGED <<dest, partial, request, good, at, verdict, handle, flagged,
                   exits, shared>>

TransferFails(d) ==
    /\ at[d] \in {"create", "write", "replace", "rename"}
    /\ Fail(d, "error")
    /\ UNCHANGED <<dest, partial, data, request, good, sent, handle, flagged,
                   exits, shared>>

\* Mutant: a cancelled transfer returns without its cleanup.
CancelSeenEarly(d) ==
    /\ flagged[d] /\ at[d] = "write"
    /\ ReturnEarly(d, "cancelled")
    /\ UNCHANGED <<dest, partial, data, request, good, sent, handle, flagged,
                   exits, shared>>

CancelSeen(d) ==
    /\ flagged[d] /\ at[d] = "write"
    /\ Fail(d, "cancelled")
    /\ UNCHANGED <<dest, partial, data, request, good, sent, handle, flagged,
                   exits, shared>>

\* The count and the hash are those of the bytes read, not of the local file.
Accepts(d) == sent[d] = Blocks /\ (request[d].hashed => good[d])

Verify(d) ==
    /\ at[d] = "write" /\ sent[d] = Blocks
    /\ IF Accepts(d) THEN Goto(d, "replace") /\ UNCHANGED verdict
                     ELSE Fail(d, "integrity")
    /\ UNCHANGED <<dest, partial, data, request, good, sent, handle, flagged,
                   exits, shared>>

\* overwrite && destination.exists(): remove_file
RemoveDestination(d) ==
    /\ at[d] = "replace"
    /\ IF request[d].overwrite /\ dest # Absent
       THEN dest' = Absent
       ELSE UNCHANGED dest
    /\ Goto(d, "rename")
    /\ UNCHANGED <<partial, data, request, good, verdict, sent, handle, flagged,
                   exits, shared>>

\* rename replaces whatever is at the destination; it needs the partial path.
Rename(d) ==
    /\ at[d] = "rename"
    /\ IF partial = Absent
       THEN Fail(d, "error") /\ UNCHANGED <<dest, partial, shared>>
       ELSE /\ dest' = partial
            /\ partial' = Absent
            /\ shared' = IF handle[d] = partial THEN shared ELSE shared \cup {partial}
            /\ ReturnEarly(d, "ok")
    /\ UNCHANGED <<data, request, good, sent, handle, flagged, exits>>

\* result.is_err() && partial.exists(): remove_file
Cleanup(d) ==
    /\ at[d] = "cleanup"
    /\ partial' = Absent
    /\ Goto(d, "done")
    /\ UNCHANGED <<dest, data, request, good, verdict, sent, handle, flagged,
                   exits, shared>>

-----------------------------------------------------------------------------

CancelDownload(d) ==
    /\ d \in Active /\ ~flagged[d]
    /\ flagged' = [flagged EXCEPT ![d] = TRUE]
    /\ UNCHANGED <<dest, partial, data, request, good, at, verdict, sent, handle,
                   exits, shared>>

\* The application exits: the calls are gone, the directory stays as it is.
Exit ==
    /\ exits < MaxExits /\ Active # {}
    /\ exits' = exits + 1
    /\ at' = [d \in Download |-> IF d \in Active THEN "done" ELSE at[d]]
    /\ verdict' = [d \in Download |-> IF d \in Active THEN "exit" ELSE verdict[d]]
    /\ UNCHANGED <<dest, partial, data, request, good, sent, handle, flagged,
                   shared>>

Proceed(d) ==
    \/ CheckDestination(d) \/ ClearPartial(d) \/ HashRemote(d) \/ CreatePartial(d)
    \/ WriteBlock(d) \/ CancelSeen(d) \/ Verify(d) \/ RemoveDestination(d)
    \/ Rename(d) \/ Cleanup(d)

AllDone == (\A d \in Download : at[d] = "done") /\ UNCHANGED downloadVars

DownloadNext ==
    \/ \E d \in Download : Proceed(d) \/ TransferFails(d) \/ CancelDownload(d)
    \/ Exit
    \/ AllDone

DownloadSpec == DownloadInit /\ [][DownloadNext]_downloadVars

-----------------------------------------------------------------------------

\* Types.
DownloadTypeOK ==
    /\ dest \in Inodes \cup {Absent} /\ partial \in Download \cup {Absent}
    /\ \A i \in Inodes :
          data[i] \in Seq(Download \cup {Hole}) /\ Len(data[i]) <= Blocks
    /\ request \in [Download -> Requests] /\ good \in [Download -> BOOLEAN]
    /\ at \in [Download -> {"idle", "clear", "hash", "create", "write", "replace",
                            "rename", "cleanup", "done"}]
    /\ verdict \in [Download -> {"none", "ok", "exists", "error", "integrity",
                                "cancelled", "exit"}]
    /\ sent \in [Download -> 0 .. Blocks] /\ handle \in [Download -> Download \cup {Absent}]
    /\ flagged \in [Download -> BOOLEAN]
    /\ exits \in 0 .. MaxExits /\ shared \in SUBSET Download

\* What is at the destination is the file that was there before or, block for
\* block, what a download that reported success received and verified.
DestinationVerified ==
    dest \in Download =>
        \E d \in Download :
            /\ data[dest] = Image(d)
            /\ verdict[d] = "ok"
            /\ request[d].hashed => good[d]

\* The same for a file that one call alone has opened and renamed: nothing
\* but the shared partial path stands between a rename and unverified content.
UnsharedIsVerified ==
    dest \in Download \ shared =>
        /\ verdict[dest] = "ok"
        /\ data[dest] = Image(dest)
        /\ request[dest].hashed => good[dest]

\* A file at the partial path belongs to a call that still has its rename or
\* its cleanup ahead, or that an exit cut off, whatever the calls beside it
\* have cleared, truncated, renamed and cleaned up under the same path.
NoLitter ==
    partial # Absent => \/ at[partial] \in {"write", "replace", "rename", "cleanup"}
                        \/ verdict[partial] = "exit"
=============================================================================
