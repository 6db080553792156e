----------------------------- MODULE FileTools -----------------------------
(***************************************************************************)
(* The tools that write a file: write_file, edit_file (with insert_before, *)
(* insert_after and apply_edits) and append_file, on the host (tools.py)   *)
(* and in the container (the scripts of sandbox/docker.py).  A call works  *)
(* on one path while a process that an earlier command left behind changes *)
(* what the path names.  Any system call may fail, Ctrl-C or a kill may    *)
(* come between any two of them, and a later run sweeps what was left.     *)
(***************************************************************************)
EXTENDS Integers, Sequences, FiniteSets

CONSTANTS
  MaxCalls,   \* calls of the file tools
  MaxRivals   \* changes by other processes

ASSUME FileToolsAssumption == MaxCalls \in Nat \ {0} /\ MaxRivals \in Nat

\* What a name stands for: nothing, a symlink to the name "other", a FIFO, or a file.
None == 0
Link == -1
Fifo == -2
Inodes == 1 .. 2 + MaxRivals + MaxCalls
IsFile(x) == x > 0

Names == {"target", "other"}   \* the call's path; another file of the worktree
Tools == {"write", "edit", "append"}

VARIABLES
  backend,      \* "host" or "docker"
  dirWritable,  \* a temp can be created beside the target
  node,         \* what each name stands for
  temps,        \* the staging file of each call, by its random name
  content,      \* of each inode: the pieces it was made of, "torn" while it is written
  \* the call
  calls, tool, pc,
  resolved,     \* the name resolve_in_worktree() ended at
  first,        \* the inode append_file() probed
  raw,          \* what was read
  probe,        \* the inode _write_atomic() probed, or None
  result,       \* of the last call: "none", "ok", "error", "raised"
  rivals,
  \* History variables.
  named,        \* inodes the target has been a name of
  multi,        \* inodes that had two names
  left,         \* a temp was left by a kill, an interrupt or a failed unlink
  promoted      \* this call replaced the target

disk    == <<backend, dirWritable>>
call    == <<tool, resolved, first, raw, probe>>
history == <<named, multi, left, promoted>>
vars    == <<disk, node, temps, content, calls, call, pc, result, rivals, history>>

Members(s) == {s[i] : i \in DOMAIN s}

\* The first inode that nothing refers to.
Fresh ==
  CHOOSE i \in Inodes :
    /\ i \notin {node[n] : n \in Names} \cup Members(temps) \cup {first, probe}
    /\ \A j \in 1 .. i - 1 : j \in {node[n] : n \in Names} \cup Members(temps) \cup {first, probe}

\* What a read that follows symlinks finds under name n.
Followed(n) == IF node[n] = Link THEN node["other"] ELSE node[n]

Links(i) == Cardinality({n \in Names : node[n] = i})
Temp     == temps[calls]

Data == Append(raw, "text")

\* What a read returns.  A torn file that is read is, for what is written from it, a
\* complete text: only a write that is under way tears.
ReadOf(i) == [k \in DOMAIN content[i] |-> IF content[i][k] = "torn" THEN "rest" ELSE content[i][k]]

Init ==
  /\ backend \in {"host", "docker"} /\ dirWritable \in BOOLEAN
  /\ node \in [target : {None, Link, Fifo, 1, 2}, other : {2}]
  /\ content = [i \in Inodes |-> IF i = 1 THEN <<"old">> ELSE IF i = 2 THEN <<"other">> ELSE <<>>]
  /\ temps = [k \in 1 .. MaxCalls |-> None]
  /\ calls = 0 /\ tool = "write" /\ pc = "idle" /\ resolved = "target"
  /\ first = None /\ raw = <<>> /\ probe = None /\ result = "none" /\ rivals = 0
  /\ named = {node["target"]} \cap Inodes
  /\ multi = {i \in Inodes : Links(i) > 1}
  /\ left = FALSE /\ promoted = FALSE

-----------------------------------------------------------------------------
(* The end of a call                                                       *)

\* The call returns, or raises; what it held is closed.
Ends(how) ==
  /\ pc' = "idle" /\ result' = how
  /\ first' = None /\ raw' = <<>> /\ probe' = None /\ resolved' = "target"

Refuses == Ends("error") /\ UNCHANGED <<node, temps, content, tool, history>>

Keeps == UNCHANGED <<node, temps, content, history>>

-----------------------------------------------------------------------------
(* Up to the write                                                         *)

\* resolve_in_worktree() follows the links; edit_file reads the path it returns.
Start(t) ==
  /\ pc = "idle" /\ calls < MaxCalls
  /\ calls' = calls + 1 /\ tool' = t /\ promoted' = FALSE
  /\ resolved' = IF backend = "host" /\ node["target"] = Link THEN "other" ELSE "target"
  /\ pc' = IF t = "edit" THEN "read"
           ELSE IF t = "append" THEN "probe1"
           ELSE IF backend = "host" THEN "probe" ELSE "guard"
  /\ UNCHANGED <<disk, node, temps, content, first, raw, probe, result, rivals,
                 named, multi, left>>

\* append_file: the first probe (host), or the guard script (docker); caps 2 and 3.
Probe1 ==
  /\ pc = "probe1"
  /\ \/ Refuses                              \* missing, a link, not a file, too big, OSError
     \/ /\ IsFile(node["target"])
        /\ first' = node["target"] /\ pc' = "read1"
        /\ Keeps /\ UNCHANGED <<tool, resolved, raw, probe, result>>
  /\ UNCHANGED <<disk, calls, rivals>>

\* append_file's read.  On the host it must be of the file that was probed.
Read1 ==
  /\ pc = "read1"
  /\ \/ Refuses
     \/ LET found == IF backend = "host" THEN node["target"] ELSE Followed("target")
        IN  /\ IsFile(found)
            /\ backend = "host" => found = first
            /\ raw' = ReadOf(found)
            /\ pc' = IF backend = "host" THEN "probe" ELSE "guard"
            /\ Keeps /\ UNCHANGED <<tool, resolved, first, probe, result>>
  /\ UNCHANGED <<disk, calls, rivals>>

\* _transform_file: read, and transform, which may refuse.
Read ==
  /\ pc = "read"
  /\ \/ Refuses
     \/ LET found == IF backend = "host" THEN node[resolved] ELSE Followed("target")
        IN  /\ IsFile(found)
            /\ raw' = ReadOf(found)
            /\ pc' = IF backend = "host" THEN "probe" ELSE "guard"
            /\ Keeps /\ UNCHANGED <<tool, resolved, first, probe, result>>
  /\ UNCHANGED <<disk, calls, rivals>>

-----------------------------------------------------------------------------
(* _write_atomic(), on the host                                            *)

\* Mutant: the probe follows a symlink.
ProbeFollows ==
  /\ pc = "probe"
  /\ \/ Refuses
     \/ /\ IsFile(Followed("target")) \/ (Followed("target") = None /\ tool # "append")
        /\ probe' = Followed("target") /\ pc' = "stat"
        /\ Keeps /\ UNCHANGED <<tool, resolved, first, raw, result>>
  /\ UNCHANGED <<disk, calls, rivals>>

\* open_nofollow(target, O_WRONLY): a link or a FIFO is refused, and for an append
\* (must_exist) so is a file that is not there.
Probe ==
  /\ pc = "probe"
  /\ \/ Refuses
     \/ /\ IsFile(node["target"]) \/ (node["target"] = None /\ tool # "append")
        /\ probe' = node["target"] /\ pc' = "stat"
        /\ Keeps /\ UNCHANGED <<tool, resolved, first, raw, result>>
  /\ UNCHANGED <<disk, calls, rivals>>

\* ftruncate() of what the probe opened: one of the two branches that are not atomic.
Truncate ==
  /\ content' = [content EXCEPT ![probe] = <<"torn">>]
  /\ pc' = "inplace"
  /\ UNCHANGED <<node, temps, history>>

\* The temp, created with O_EXCL beside the target.
Stage ==
  /\ dirWritable
  /\ temps' = [temps EXCEPT ![calls] = Fresh]
  /\ content' = [content EXCEPT ![Fresh] = <<"torn">>]
  /\ pc' = "fill"
  /\ UNCHANGED <<node, history>>

\* Mutant: whatever keeps the temp from being created, the write is done in place.
StatAnyError ==
  /\ pc = "stat"
  /\ \/ Refuses
     \/ /\ \/ IsFile(probe) /\ Truncate
           \/ ~(IsFile(probe) /\ Links(probe) > 1) /\ Stage
        /\ UNCHANGED <<call, result>>
  /\ UNCHANGED <<disk, calls, rivals>>

\* fstat() of the probe, then the branch: a file with two names is written in place, and
\* so is one whose directory takes no temp.
Stat ==
  /\ pc = "stat"
  /\ \/ Refuses
     \/ /\ \/ IsFile(probe) /\ (Links(probe) > 1 \/ ~dirWritable) /\ Truncate
           \/ ~(IsFile(probe) /\ Links(probe) > 1) /\ Stage
        /\ UNCHANGED <<call, result>>
  /\ UNCHANGED <<disk, calls, rivals>>

WriteInPlace ==
  /\ pc = "inplace"
  /\ \/ content' = [content EXCEPT ![probe] = Data] /\ Ends("ok")
     \/ UNCHANGED content /\ Ends("error")
  /\ UNCHANGED <<disk, node, temps, calls, tool, rivals, history>>

\* _write_all(), fchmod() and close(), whose errors all come before the promotion.
Fill ==
  /\ pc = "fill"
  /\ \/ pc' = "promote"
        /\ content' = [content EXCEPT ![Temp] = Data]
     \/ pc' = "unwind" /\ UNCHANGED content
  /\ UNCHANGED <<disk, node, temps, calls, call, result, rivals, history>>

\* os.replace(), mv -fT: whatever the name stands for now is replaced, a link as a link.
Promote ==
  /\ pc = "promote"
  /\ \/ /\ node' = [node EXCEPT !["target"] = Temp]
        /\ temps' = [temps EXCEPT ![calls] = None]
        /\ named' = named \cup {Temp} /\ promoted' = TRUE
        /\ Ends("ok")
        /\ UNCHANGED tool
     \/ pc' = "unwind" /\ UNCHANGED <<node, temps, named, promoted, call, result>>
  /\ UNCHANGED <<disk, content, calls, rivals, multi, left>>

\* _unlink_quietly(), or the script's rm -f.
Unwind(how) ==
  /\ \/ temps' = [temps EXCEPT ![calls] = None] /\ UNCHANGED left
     \/ left' = TRUE /\ UNCHANGED temps
  /\ Ends(how)
  /\ UNCHANGED <<node, content, tool, named, multi, promoted>>

Unwinds == pc = "unwind" /\ Unwind("error") /\ UNCHANGED <<disk, calls, rivals>>

-----------------------------------------------------------------------------
(* WRITE_SCRIPT and APPEND_WRITE_SCRIPT, in the container                  *)

\* The script's tests; a write goes on to cat into the temp, an append to cp.
Guard ==
  /\ pc = "guard"
  /\ \/ Refuses
     \/ /\ tool = "append" => IsFile(Followed("target"))
        /\ IF tool = "append" THEN pc' = "copy" /\ Keeps ELSE Stage
        /\ UNCHANGED <<call, result>>
  /\ UNCHANGED <<disk, calls, rivals>>

\* cp -- "$1" "$2": what is there now, not what was read for the caps and the diff.
Copy ==
  /\ pc = "copy"
  /\ \/ Refuses
     \/ /\ IsFile(Followed("target"))
        /\ raw' = ReadOf(Followed("target"))
        /\ Stage
        /\ UNCHANGED <<tool, resolved, first, probe, result>>
  /\ UNCHANGED <<disk, calls, rivals>>

-----------------------------------------------------------------------------
(* Interrupt, kill, sweep                                                  *)

\* Mutant: only an OSError removes the temp.
InterruptKeepsTemp ==
  /\ backend = "host" /\ pc # "idle"
  /\ Ends("raised") /\ UNCHANGED <<node, temps, content, tool, history>>
  /\ UNCHANGED <<disk, calls, rivals>>

\* Ctrl-C in the host's call.  Past the creation of the temp it is removed, but for the
\* moment between open() and the try that follows it.
Interrupt ==
  /\ backend = "host" /\ pc # "idle"
  /\ IF pc \in {"fill", "promote", "unwind"}
       THEN Unwind("raised")
       ELSE Ends("raised") /\ UNCHANGED <<node, temps, content, tool, history>>
  /\ UNCHANGED <<disk, calls, rivals>>

\* The process, or the container, is killed.
Kill ==
  /\ pc # "idle"
  /\ left' = (left \/ Temp # None)
  /\ Ends("raised")
  /\ UNCHANGED <<disk, node, temps, content, tool, calls, rivals, named, multi, promoted>>

\* The sweep of start() and finalize().  It stops where the budget is exceeded, and a
\* temp it cannot unlink stays.
Sweep(complete) ==
  /\ pc = "idle" /\ left
  /\ temps' = IF complete THEN [k \in DOMAIN temps |-> None] ELSE temps
  /\ left' = ~complete
  /\ UNCHANGED <<disk, node, content, calls, call, pc, result, rivals, named, multi, promoted>>

-----------------------------------------------------------------------------
(* Other processes                                                         *)

Rival ==
  /\ rivals < MaxRivals
  /\ rivals' = rivals + 1
  /\ \/ /\ IsFile(Followed("target"))                                  \* grows the file
        /\ content' = [content EXCEPT ![Followed("target")] = Append(@, "rival")]
        /\ UNCHANGED <<node, named, multi>>
     \/ /\ node' = [node EXCEPT !["target"] = Fresh]                   \* saves a new file
        /\ content' = [content EXCEPT ![Fresh] = <<"rival">>]
        /\ named' = named \cup {Fresh}
        /\ multi' = multi \ {Fresh}
     \/ /\ \E x \in {None, Link, Fifo} : node' = [node EXCEPT !["target"] = x]
        /\ UNCHANGED <<content, named, multi>>
     \/ \E i \in {node[n] : n \in Names} \cap Inodes :                 \* gives it a second name
          /\ node' = [n \in Names |-> i]
          /\ named' = named \cup {i}
          /\ multi' = multi \cup {i}
          /\ UNCHANGED content
  /\ UNCHANGED <<disk, temps, calls, call, pc, result, left, promoted>>

-----------------------------------------------------------------------------
CallStep ==
  \/ \E t \in Tools : Start(t)
  \/ Probe1 \/ Read1 \/ Read \/ Probe \/ Stat \/ WriteInPlace \/ Fill \/ Promote \/ Unwinds
  \/ Guard \/ Copy

Terminated == pc = "idle" /\ calls = MaxCalls /\ ~left /\ UNCHANGED vars

Next ==
  \/ CallStep \/ Interrupt \/ Kill \/ Rival \/ Terminated
  \/ \E complete \in BOOLEAN : Sweep(complete)

Spec == Init /\ [][Next]_vars

-----------------------------------------------------------------------------
(* Properties                                                              *)

\* "a failure or a kill during the write leaves the file byte-identical instead of
\* truncated" (_write_atomic): whatever fails, is killed or is swapped meanwhile, no name
\* but a temp ever shows a file that is half written, except a file that had two names,
\* or one in a directory that takes no temp; and a call that reports an error did not
\* replace the target.
WriteIsAtomic ==
  /\ \A n \in Names :
       IsFile(node[n]) /\ "torn" \in Members(content[node[n]])
         => node[n] \in multi \/ ~dirWritable
  /\ result = "error" /\ pc = "idle" => ~promoted

\* "nothing is ever written through" a symlink (_write_atomic), even when it takes the
\* target's place after the probe: a call's bytes are only in files that the path itself
\* has been a name of, and in its temps.
NothingThroughALink ==
  \A i \in Inodes \ (named \cup Members(temps)) :
    i \in {node[n] : n \in Names} => Members(content[i]) \cap {"text", "torn"} = {}

\* When a call is over its temp is gone, whatever made it end, unless it was killed, or
\* interrupted in the moment after open(), or the unlink failed; and a temp that was left
\* that way is gone after a complete sweep.  (HostSandbox.start(), finalize().)
TempsAreRemoved ==
  pc = "idle" /\ ~left => \A k \in DOMAIN temps : temps[k] = None
=============================================================================
