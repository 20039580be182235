----------------------------- MODULE Lab4Paths -----------------------------
(***************************************************************************)
(* Path resolution by several worker threads (lab4_read_inode).            *)
(*                                                                         *)
(* Every handler that is given a path walks it name by name with strtok,   *)
(* over a copy of the path on its own stack.  strtok keeps the place it    *)
(* has reached in one static pointer of the C library (external), which    *)
(* all threads of fuse_main share: a thread may go on in the path of       *)
(* another one, or in a stack frame that is gone, whose bytes may read as  *)
(* any name or none.                                                       *)
(*                                                                         *)
(* The directories do not change here: what changes under a walk is in     *)
(* Lab4FS and Lab4Workers.                                                 *)
(*                                                                         *)
(* An operator whose name ends in _ and a word is a variant of the one     *)
(* after it with a bug the code does not have, put in its place to see a   *)
(* property fail.                                                          *)
(***************************************************************************)
EXTENDS Integers, Sequences

CONSTANTS Threads,
          Names,     \* names that occur in paths and in directories
          Tree,      \* the entries of the directories: [dir, name, node]
          Root,
          MaxDepth   \* names in a path

Paths == UNION {[1..k -> Names] : k \in 1..MaxDepth}

VARIABLES
    walk,   \* what each thread is doing
    olds,   \* the static pointer of strtok: a place in a path
    ended   \* the names strtok has terminated with a zero byte

pathVars == <<walk, olds, ended>>

\* Place k in the copy of the path that thread t has made for its n-th call.
Place(t, n, k) == [thread |-> t, nth |-> n, at |-> k]

Nowhere == [thread |-> "none", nth |-> 0, at |-> 0]

NoName == "end of path"

NotFound == "ENOENT"

ASSUME PathsAssumption ==
    /\ NoName \notin Names
    /\ Root # NotFound
    /\ MaxDepth \in Nat

-----------------------------------------------------------------------------
Hits(d, n) == {e \in Tree : e.dir = d /\ e.name = n}

Lookup_Unreported(d, n) == IF Hits(d, n) = {} THEN d
                           ELSE (CHOOSE e \in Hits(d, n) : TRUE).node

\* lab4_lookup.
Lookup(d, n) == IF Hits(d, n) = {} THEN NotFound
                ELSE (CHOOSE e \in Hits(d, n) : TRUE).node

\* What a path names.
Resolve(path) ==
    LET node[k \in 0..Len(path)] ==
            IF k = 0 THEN Root
            ELSE IF node[k - 1] = NotFound THEN NotFound
            ELSE Lookup(node[k - 1], path[k])
    IN  node[Len(path)]

Walking(t) == walk[t].pc # "idle"

PathsInit ==
    /\ walk = [t \in Threads |-> [pc |-> "idle", path |-> << >>, nth |-> 0, ino |-> Root,
                                  from |-> Nowhere, name |-> NoName, alone |-> TRUE]]
    /\ olds = Nowhere
    /\ ended = {}

FirstPlace_Static(t, n) == olds

\* strtok(path, "/") starts at the path and not at the static pointer.
FirstPlace(t, n) == Place(t, n, 1)

\* lab4_read_inode copies the path and calls strtok with the copy.  Calls are
\* told apart by their parity: a place in a call that is over is only known to
\* be stale.
Begin(t, path) ==
    /\ ~Walking(t)
    /\ LET n == 1 - walk[t].nth
           alone == \A u \in Threads : ~Walking(u)
       IN  /\ walk' = [u \in Threads |->
                         IF u = t
                         THEN [pc |-> "token", path |-> path, nth |-> n, ino |-> Root,
                               from |-> FirstPlace(t, n), name |-> NoName, alone |-> alone]
                         ELSE [walk[u] EXCEPT !.alone = @ /\ ~Walking(u)]]
    /\ ended' = {p \in ended : p.thread # t}
    /\ UNCHANGED olds

\* strtok(NULL, "/") takes the place from the static pointer.
Load(t) == /\ walk[t].pc = "load"
           /\ walk' = [walk EXCEPT ![t].pc = "token", ![t].from = olds]
           /\ UNCHANGED <<olds, ended>>

\* The copy a place points into still belongs to the call that made it.
InUse(p) == p # Nowhere /\ Walking(p.thread) /\ walk[p.thread].nth = p.nth

\* strtok returns the name at the place and leaves the pointer behind it; a
\* name that was terminated by another thread ends the path.
Token(t) ==
    LET p    == walk[t].from
        path == walk[p.thread].path
    IN  /\ walk[t].pc = "token"
        /\ \/ /\ InUse(p) /\ p.at <= Len(path)
              /\ walk' = [walk EXCEPT ![t].pc = "lookup", ![t].name = path[p.at]]
              /\ olds' = [p EXCEPT !.at = IF p \in ended THEN Len(path) + 1 ELSE p.at + 1]
              /\ ended' = ended \cup {p}
           \/ /\ InUse(p) /\ p.at > Len(path)
              /\ walk' = [walk EXCEPT ![t].pc = "lookup", ![t].name = NoName]
              /\ olds' = p
              /\ UNCHANGED ended
           \/ /\ ~InUse(p)
              /\ \E name \in Names \cup {NoName} :
                    walk' = [walk EXCEPT ![t].pc = "lookup", ![t].name = name]
              /\ olds' = p
              /\ UNCHANGED ended

\* The name is looked up in the inode reached so far (cur_ino = dir_entry.d_ino
\* if it is there); at the end of the path that inode is the result.
LookupName(t) ==
    LET w    == walk[t]
        node == Lookup(w.ino, w.name)
    IN  /\ w.pc = "lookup"
        /\ IF w.name = NoName THEN walk' = [walk EXCEPT ![t].pc = "done"]
           ELSE IF node = NotFound
           THEN walk' = [walk EXCEPT ![t].pc = "done", ![t].ino = NotFound]
           ELSE walk' = [walk EXCEPT ![t].pc = "load", ![t].ino = node]
        /\ UNCHANGED <<olds, ended>>

Return(t) == /\ walk[t].pc = "done"
             /\ walk' = [walk EXCEPT ![t].pc = "idle", ![t].path = << >>, ![t].ino = Root,
                                     ![t].from = Nowhere, ![t].name = NoName, ![t].alone = TRUE]
             /\ UNCHANGED <<olds, ended>>

Step(t) == Load(t) \/ Token(t) \/ LookupName(t) \/ Return(t)

PathsNext == \E t \in Threads : Step(t) \/ \E path \in Paths : Begin(t, path)

\* A thread inside lab4_read_inode goes on.
PathsSpec == PathsInit /\ [][PathsNext]_pathVars /\ \A t \in Threads : WF_pathVars(Step(t))

-----------------------------------------------------------------------------
(* Properties.                                                             *)

(***************************************************************************)
(* A walk no other walk overlaps ends at what its path names, whatever     *)
(* earlier walks have left in the static pointer.                          *)
(***************************************************************************)
RightWhenAlone ==
    \A t \in Threads : walk[t].pc = "done" /\ walk[t].alone
                          => walk[t].ino = Resolve(walk[t].path)

(***************************************************************************)
(* A walk ends although other threads may keep feeding it names: each name *)
(* takes it one directory down, and the tree has a bottom.                 *)
(***************************************************************************)
WalksEnd == \A t \in Threads : Walking(t) ~> ~Walking(t)

(***************************************************************************)
(* A call gets the inode its path names.                                   *)
(***************************************************************************)
ResolvesOwnPath ==
    \A t \in Threads : walk[t].pc = "done" => walk[t].ino = Resolve(walk[t].path)
=============================================================================
