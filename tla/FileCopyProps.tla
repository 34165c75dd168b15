---------------------------- MODULE FileCopyProps ----------------------------
(***************************************************************************)
(* What holds of the copying programs.                                     *)
(***************************************************************************)
EXTENDS FileCopy

Stream == INSTANCE ByteStream
            WITH out <- [f \in Names |-> IF f \in mine THEN dst[f] ELSE <<>>]

\* However the calls fail and the processes end, a destination this run has
\* made holds a prefix of its source and only ever grows.
Implements == Stream!Spec

\* copy_dir "copies all regular files from /dir1 to /dir2" (copy.c:71).
Asked == IF prog = "copy_dir" THEN Names
         ELSE {f \in Names : cur = f}
Ended == spc = "done" /\ rpc \in {"off", "done"}

\* It does not: it passes over a file the working directory has not as well,
\* and writes one whose path is too long under another name.
Missed(f) == prog = "copy_dir" /\ (~Regular(f) \/ f \in long)

\* When every process of a program has ended well, and no read of a file or a
\* directory has failed behind its back, every file it was asked for has
\* arrived whole.  The exceptions are the two ways in which copy_dir misses a
\* file and exits with 0, and a file copied onto itself, because opening it
\* empties it.
SuccessIsWhole ==
  Ended /\ ~unseen /\ ~same =>
    \A f \in Asked : dst[f] = source[f] \/ Missed(f)

\* Neither end of the download, nor a local copy, waits for ever: a peer that
\* ends shows up as end of file or as a failed write.  Only a server nobody
\* connects to waits.
TransferEnds ==
  <>(/\ spc \in {"done", "failed"}
     /\ rpc \in {"off", "done", "failed"} \/ link = "none")
=============================================================================
