------------------------------ MODULE FileCopy ------------------------------
(***************************************************************************)
(* The programs that copy a file by a loop of read and write: copy.c (one   *)
(* file, or the files of a directory), download-file-program/test.c, and    *)
(* the client and server of download-file-program, where two such loops run *)
(* at either end of a socket.  Calls fail and processes are killed anywhere.*)
(***************************************************************************)
EXTENDS Naturals, Sequences, FiniteSetsExt

CONSTANTS
  Names,    \* the names of files
  MaxLen,   \* the longest file, in bytes
  BuffSize, \* BUFFERSIZE, BUFF_MAX or BUFF_SIZE
  SockCap,  \* bytes the socket holds
  Absent    \* a file that does not exist; no file

ASSUME SizesAssumption == MaxLen \in Nat /\ BuffSize \in Nat \ {0}
                          /\ SockCap \in Nat \ {0}
ASSUME AbsentAssumption == Absent \notin Names

VARIABLES
  prog,      \* which program runs
  source,    \* source[f] : what file f held when it was started
  file,      \* file[f] : what it holds now
  same,      \* the destination is the source under another name
  cwd,       \* the names that are regular files in the working directory
  long,      \* the names whose path overruns the arrays of copyDir
  dst,       \* dst[f] : the destination of f
  mine,      \* the destinations this run has created or truncated
  todo,      \* files still to copy
  cur,       \* the file being copied
  pos,       \* bytes of it that have been read
  spc, sbuf, \* the copying process, and its buffer
  rpc, rbuf, \* the receiving process of the download, and its buffer
  sock,      \* bytes in the socket
  link,      \* the connection: "none" yet, "open", "fin" when the sender has
             \* closed it, "broken" when the receiver has
  unseen     \* a failure has ended a loop just as its end does

sender   == <<todo, cur, pos, spc, sbuf>>
receiver == <<rpc, rbuf>>
vars == <<prog, source, file, same, cwd, long, dst, mine, sender, receiver, sock,
          link, unseen>>

Bytes(n) == [i \in 1..n |-> i]

\* What copy.c does depends on which of its two arguments begin with '/'.
CopyMode(srcAbsolute, destAbsolute) ==
  CASE ~srcAbsolute                 -> "copy_file"
    [] srcAbsolute /\ destAbsolute  -> "copy_dir"
    [] srcAbsolute /\ ~destAbsolute -> "usage"

Old == <<0>>

Init ==
  /\ prog \in {CopyMode(a, b) : a, b \in BOOLEAN} \cup {"test", "download"}
  /\ \E lens \in [Names -> 0..MaxLen] : source = [f \in Names |-> Bytes(lens[f])]
  /\ file = source
  /\ same \in IF prog = "download" THEN {FALSE} ELSE BOOLEAN
  /\ cwd \in IF prog = "copy_dir" THEN SUBSET Names ELSE {Names}
  /\ long \in IF prog = "copy_dir" THEN SUBSET Names ELSE {{}}
  /\ dst \in [Names -> {Absent, Old}]
  /\ mine = {}
  /\ todo \in IF prog = "copy_dir" THEN {Names} ELSE {{f} : f \in Names}
  /\ cur = Absent /\ pos = 0
  /\ spc = "next" /\ sbuf = <<>>
  /\ rpc = IF prog = "download" THEN "accept" ELSE "off"
  /\ rbuf = <<>> /\ sock = <<>> /\ link = "none"
  /\ unseen = FALSE

----------------------------------------------------------------------------
(* The process that reads the source.                                      *)

\* The end of a process: the kernel closes its end of the socket.
Ends(how) == /\ spc' = how
             /\ link' = IF link = "open" THEN "fin" ELSE link

\* dostat looks for the name in the working directory, not in the source
\* directory.
Regular(f) == f \in cwd

\* tempSrc and tempDest have no room for the name: one path runs into the
\* other, and the copy goes to a file that nobody named, or fails.
Misled == /\ UNCHANGED <<cur, pos>>
          /\ UNCHANGED <<spc, link>> \/ Ends("failed")

\* copyFiles is called, in copy_dir for the next name that readdir gives.
SNext ==
  /\ spc = "next" /\ prog # "download"
  /\ \/ /\ prog = "usage" /\ Ends("failed")
        /\ UNCHANGED <<todo, cur, pos>>
     \/ /\ prog # "usage" /\ todo = {}
        /\ Ends("done")
        /\ UNCHANGED <<todo, cur, pos>>
     \/ \E f \in todo :
          /\ prog # "usage"
          /\ todo' = todo \ {f}
          /\ IF Regular(f)
             THEN IF f \in long THEN Misled
                  ELSE cur' = f /\ pos' = 0 /\ spc' = "open" /\ UNCHANGED link
             ELSE UNCHANGED <<cur, pos, spc, link>>
  /\ UNCHANGED <<prog, source, file, same, cwd, long, dst, mine, sbuf, receiver,
                 sock, unseen>>

\* The client of the download connects to a server that listens, sends one
\* file and leaves.
SConnect ==
  /\ spc = "next" /\ prog = "download"
  /\ \/ /\ \/ todo = {} /\ Ends("done")
           \/ todo # {} /\ Ends("failed")
        /\ UNCHANGED <<todo, cur, pos>>
     \/ /\ rpc = "accept" /\ link' = "open"
        /\ cur' \in todo /\ todo' = {} /\ pos' = 0 /\ spc' = "open"
  /\ UNCHANGED <<prog, source, file, same, cwd, long, dst, mine, sbuf, receiver,
                 sock, unseen>>

\* opendir or readdir fails: copyDir returns, and so does main.
SNoDir ==
  /\ spc = "next" /\ prog = "copy_dir" /\ todo # {}
  /\ todo' = {} /\ unseen' = TRUE
  /\ UNCHANGED <<prog, source, file, same, cwd, long, dst, mine, cur, pos, spc, sbuf,
                 receiver, sock, link>>

\* creat, or open with O_TRUNC, empties a destination that exists, and with
\* it the source if they are one file.
Truncate(f) ==
  /\ dst' = [dst EXCEPT ![f] = <<>>]
  /\ mine' = mine \cup {f}
  /\ file' = IF same THEN [file EXCEPT ![f] = <<>>] ELSE file

CopyOpens   == prog \in {"copy_file", "copy_dir"} /\ Truncate(cur)
TestOpens   == prog = "test" /\ Truncate(cur)
ClientOpens == prog = "download" /\ UNCHANGED <<file, dst, mine>>

SOpen ==
  /\ spc = "open"
  /\ \/ /\ Ends("failed")
        /\ UNCHANGED <<file, dst, mine>>
     \/ /\ spc' = "read"
        /\ CopyOpens \/ TestOpens \/ ClientOpens
        /\ UNCHANGED link
  /\ UNCHANGED <<prog, source, same, cwd, long, todo, cur, pos, sbuf, receiver,
                 sock, unseen>>

\* A read that fails ends the loop just as the end of the file does.
SRead ==
  /\ spc = "read"
  /\ LET n == Min({BuffSize, Len(file[cur]) - pos})
     IN  \/ /\ n > 0
            /\ sbuf' = SubSeq(file[cur], pos + 1, pos + n)
            /\ pos' = pos + n /\ spc' = "write"
            /\ UNCHANGED unseen
         \/ /\ n = 0 /\ spc' = "next"
            /\ UNCHANGED <<sbuf, pos, unseen>>
         \/ /\ spc' = "next" /\ unseen' = TRUE
            /\ UNCHANGED <<sbuf, pos>>
  /\ UNCHANGED <<prog, source, file, same, cwd, long, dst, mine, todo, cur,
                 receiver, sock, link>>

\* The slip: the loop does not compare what was written with what was read.
SWriteOn ==
  /\ spc = "write" /\ prog # "download"
  /\ \E n \in 0..Len(sbuf) :
        /\ dst' = [dst EXCEPT ![cur] = @ \o SubSeq(sbuf, 1, n)]
        /\ file' = IF same THEN [file EXCEPT ![cur] = dst'[cur]] ELSE file
  /\ spc' = "read" /\ sbuf' = <<>>
  /\ UNCHANGED <<prog, source, same, cwd, long, mine, todo, cur, pos, receiver,
                 sock, link, unseen>>

\* A write to a file that does not take everything ends the program.
SWrite ==
  /\ spc = "write" /\ prog # "download"
  /\ \E n \in 0..Len(sbuf) :
        /\ dst' = [dst EXCEPT ![cur] = @ \o SubSeq(sbuf, 1, n)]
        /\ file' = IF same THEN [file EXCEPT ![cur] = dst'[cur]] ELSE file
        /\ IF n = Len(sbuf) THEN spc' = "read" /\ UNCHANGED link
                            ELSE Ends("failed")
  /\ sbuf' = <<>>
  /\ UNCHANGED <<prog, source, same, cwd, long, mine, todo, cur, pos, receiver,
                 sock, unseen>>

\* A write to the socket hands over what there is room for and waits for
\* more.  Once the server has gone it is lost, or fails.
SSend ==
  /\ spc = "write" /\ prog = "download"
  /\ \/ /\ link = "broken"
        /\ spc' \in {"read", "failed"} /\ sbuf' = <<>>
        /\ UNCHANGED sock
     \/ /\ link = "open"
        /\ \E n \in 1..Min({Len(sbuf), SockCap - Len(sock)}) :
              /\ sock' = sock \o SubSeq(sbuf, 1, n)
              /\ sbuf' = SubSeq(sbuf, n + 1, Len(sbuf))
              /\ spc' = IF n = Len(sbuf) THEN "read" ELSE "write"
  /\ UNCHANGED <<prog, source, file, same, cwd, long, dst, mine, todo, cur, pos,
                 receiver, link, unseen>>

SKilled ==
  /\ spc \notin {"done", "failed"}
  /\ Ends("failed")
  /\ sbuf' = <<>>
  /\ UNCHANGED <<prog, source, file, same, cwd, long, dst, mine, todo, cur, pos,
                 receiver, sock, unseen>>

----------------------------------------------------------------------------
(* The server of the download, which takes one connection.  The destination *)
(* is named on its command line.                                           *)

Target == CHOOSE f \in Names : todo = {f} \/ cur = f

RGone(how) == /\ rpc' = how /\ rbuf' = <<>>
              /\ link' = IF link = "open" THEN "broken" ELSE link

\* accept, then open with O_EXCL: a file that exists ends the server.
RAccept ==
  /\ rpc = "accept" /\ link # "none"
  /\ IF dst[Target] = Absent
     THEN /\ dst' = [dst EXCEPT ![Target] = <<>>]
          /\ mine' = mine \cup {Target}
          /\ rpc' = "read"
          /\ UNCHANGED <<rbuf, link>>
     ELSE /\ RGone("failed")
          /\ UNCHANGED <<dst, mine>>
  /\ UNCHANGED <<prog, source, file, same, cwd, long, sender, sock, unseen>>

\* The slip: only a negative result ends the loop, so that it goes round and
\* round at end of file.
RReadNegative ==
  /\ rpc = "read"
  /\ \E n \in 1..Min({BuffSize, Len(sock)}) :
        /\ rbuf' = SubSeq(sock, 1, n)
        /\ sock' = SubSeq(sock, n + 1, Len(sock))
        /\ rpc' = "write"
  /\ UNCHANGED <<prog, source, file, same, cwd, long, dst, mine, sender, link,
                 unseen>>

\* The slip: what was read stays in the stream.
RReadPeeks ==
  /\ rpc = "read"
  /\ \/ \E n \in 1..Min({BuffSize, Len(sock)}) :
          /\ rbuf' = SubSeq(sock, 1, n) /\ rpc' = "write"
          /\ UNCHANGED <<sock, link, unseen>>
     \/ /\ sock = <<>> /\ link = "fin" /\ RGone("done")
        /\ UNCHANGED <<sock, unseen>>
  /\ UNCHANGED <<prog, source, file, same, cwd, long, dst, mine, sender>>

\* read waits for bytes or for the end of the stream.
RRead ==
  /\ rpc = "read"
  /\ \/ \E n \in 1..Min({BuffSize, Len(sock)}) :
          /\ rbuf' = SubSeq(sock, 1, n)
          /\ sock' = SubSeq(sock, n + 1, Len(sock))
          /\ rpc' = "write"
          /\ UNCHANGED link
     \/ /\ sock = <<>> /\ link = "fin"
        /\ RGone("done")
        /\ UNCHANGED sock
  /\ UNCHANGED <<prog, source, file, same, cwd, long, dst, mine, sender, unseen>>

\* A read that fails ends the loop just as the end of the stream does.
RReadFails ==
  /\ rpc = "read"
  /\ RGone("done") /\ unseen' = TRUE
  /\ UNCHANGED <<prog, source, file, same, cwd, long, dst, mine, sender, sock>>

RWrite ==
  /\ rpc = "write"
  /\ \E n \in 0..Len(rbuf) :
        /\ dst' = [dst EXCEPT ![Target] = @ \o SubSeq(rbuf, 1, n)]
        /\ IF n = Len(rbuf) THEN rpc' = "read" /\ rbuf' = <<>> /\ UNCHANGED link
                            ELSE RGone("failed")
  /\ UNCHANGED <<prog, source, file, same, cwd, long, mine, sender, sock, unseen>>

RKilled ==
  /\ rpc \in {"accept", "read", "write"}
  /\ RGone("failed")
  /\ UNCHANGED <<prog, source, file, same, cwd, long, dst, mine, sender, sock,
                 unseen>>

----------------------------------------------------------------------------
Next == \/ SNext \/ SNoDir \/ SConnect \/ SOpen \/ SRead \/ SWrite \/ SSend
        \/ SKilled
        \/ RAccept \/ RRead \/ RReadFails \/ RWrite \/ RKilled

Spec == Init /\ [][Next]_vars

\* Nothing in these loops waits for a person, and no call has to fail.
Fairness == /\ WF_vars(SNext \/ SConnect \/ SOpen \/ SRead \/ SWrite \/ SSend)
            /\ WF_vars(RAccept \/ RRead \/ RWrite)
FairSpec == Spec /\ Fairness
=============================================================================
