---------------------------- MODULE UploadHistory --------------------------
(***************************************************************************)
(* FileContent with a history of the uploads: whose upload is at each      *)
(* path, and which files it is not that upload alone that has to answer    *)
(* for.  Nothing in the code depends on it.                                *)
(*                                                                         *)
(* UploadFilesAreNew does not hold.  What does is that content is whole as *)
(* long as none of three things has happened to its file: an upload has    *)
(* opened what an earlier one had left, a rename has moved what another    *)
(* upload had made, or a crash has lost a block that was on its way.       *)
(***************************************************************************)
EXTENDS FileContent

VARIABLES
    owner,      \* the request that has last opened the file at each path as its upload
    spoilt      \* the inodes in uploads/ and files/ to which one of the three happened

past == <<owner, spoilt>>

HInit ==
    /\ Init
    /\ owner = [id \in Ids |-> None]
    /\ spoilt = {}

BlockToCome(inode) == Pending(LAMBDA t : t.op = "write" /\ t.inode = inode)

\* A request that is over has left something, or something of it may still come.
LeftBehind(inode) ==
    /\ inode # None
    /\ bytes[inode] # <<>> \/ BlockToCome(inode)
    /\ \A w \in Writers : handle[w] # inode

Opens(i) ==
    LET t == tasks[i] IN
    /\ RunOpen(i)
    /\ owner' = IF Awaited(t, "opening") /\ uploads'[t.id] # None
                THEN [owner EXCEPT ![t.id] = t.by]
                ELSE owner
    /\ spoilt' = IF Awaited(t, "opening") /\ LeftBehind(uploads[t.id])
                 THEN spoilt \cup {uploads[t.id]}
                 ELSE spoilt

Renames(i) ==
    LET t == tasks[i] IN
    /\ RunRename(i)
    /\ owner' = [owner EXCEPT ![t.id] = None]
    /\ spoilt' = IF uploads[t.id] = None
                 THEN spoilt
                 ELSE (spoilt \ {files[t.to]}) \cup (IF owner[t.id] = t.by THEN {} ELSE {uploads[t.id]})

Removes(i) ==
    LET t == tasks[i] IN
    /\ RunRemove(i)
    /\ owner' = [owner EXCEPT ![t.id] = None]
    /\ spoilt' = spoilt \ {uploads[t.id]}

Linked(inode) == \/ \E id \in Ids : uploads[id] = inode
                 \/ \E c \in Contents : files[c] = inode

Crashes ==
    /\ Crash
    /\ owner' = [id \in Ids |-> None]
    /\ spoilt' = spoilt \cup {inode \in Inodes : Linked(inode) /\ BlockToCome(inode)}

HNext ==
    \/ (Serve \/ \E i \in DOMAIN tasks : RunWrite(i)) /\ UNCHANGED past
    \/ \E i \in DOMAIN tasks : Opens(i) \/ Renames(i) \/ Removes(i)
    \/ Crashes

hvars == <<vars, past>>
HSpec == HInit /\ [][HNext]_hvars
LiveHSpec == HSpec /\ Fairness

-----------------------------------------------------------------------------
(* Properties *)

\* What a reader of a file gets is the content its row names, as soon as the last
\* block of it is written, which nobody waits for (stream.rs:54-80): through any
\* order of the tasks, cancellations, late renames of its own request, and other
\* uploads to the same path, but for the three things that spoil it.
ContentIsWhole ==
    \A id \in Ids :
        LET c == stored[id]
            inode == files[c]
        IN  c \notin {Empty, Gone} /\ inode \notin spoilt =>
                \/ bytes[inode] = c
                \/ \E i \in DOMAIN tasks : /\ tasks[i].op = "write" /\ tasks[i].inode = inode
                                           /\ Written(bytes[inode], tasks[i].pos, tasks[i].block) = c

=============================================================================
