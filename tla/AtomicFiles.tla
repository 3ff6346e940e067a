------------------------------ MODULE AtomicFiles -----------------------------
(***************************************************************************)
(* What the file system promises: open files with a position each, and      *)
(* reads and writes that happen at one moment between call and return.     *)
(***************************************************************************)
EXTENDS Integers, Sequences

CONSTANTS Threads, FileSize, NoFile, Fresh(_, _)

VARIABLES
    content,    \* the bytes of every file
    file, pos,  \* the file each thread has open, and its position
    call, count, decided, result

vars == <<content, file, pos, call, count, decided, result>>

Files == DOMAIN FileSize

Init ==
    /\ content = [f \in Files |-> [p \in 0 .. FileSize[f] - 1 |-> Fresh(f, p)]]
    /\ file = [t \in Threads |-> NoFile]
    /\ pos = [t \in Threads |-> 0]
    /\ call = [t \in Threads |-> "none"]
    /\ count = [t \in Threads |-> 0]
    /\ decided = [t \in Threads |-> FALSE]
    /\ result = [t \in Threads |-> <<>>]

Open(t, f) ==
    /\ file[t] = NoFile
    /\ file' = [file EXCEPT ![t] = f]
    /\ UNCHANGED <<content, pos, call, count, decided, result>>

Close(t) ==
    /\ file[t] # NoFile /\ call[t] = "none"
    /\ file' = [file EXCEPT ![t] = NoFile]
    /\ pos' = [pos EXCEPT ![t] = 0]
    /\ UNCHANGED <<content, call, count, decided, result>>

Seek(t, p) ==
    /\ file[t] # NoFile /\ call[t] = "none"
    /\ p <= FileSize[file[t]]
    /\ pos' = [pos EXCEPT ![t] = p]
    /\ UNCHANGED <<content, file, call, count, decided, result>>

\* At most what is left of the file.
Call(t, c, k) ==
    /\ file[t] # NoFile /\ call[t] = "none"
    /\ k \in 0 .. FileSize[file[t]] - pos[t]
    /\ call' = [call EXCEPT ![t] = c]
    /\ count' = [count EXCEPT ![t] = k]
    /\ UNCHANGED <<content, file, pos, decided, result>>

\* The moment of the call.
Decide(t) ==
    /\ call[t] # "none" /\ ~decided[t]
    /\ LET span == pos[t] .. pos[t] + count[t] - 1
       IN IF call[t] = "read"
          THEN /\ result' = [result EXCEPT ![t] =
                    [i \in 1 .. count[t] |-> content[file[t]][pos[t] + i - 1]]]
               /\ UNCHANGED content
          ELSE /\ content' = [content EXCEPT ![file[t]] =
                    [p \in DOMAIN @ |-> IF p \in span THEN t ELSE @[p]]]
               /\ UNCHANGED result
    /\ pos' = [pos EXCEPT ![t] = @ + count[t]]
    /\ count' = [count EXCEPT ![t] = 0]
    /\ decided' = [decided EXCEPT ![t] = TRUE]
    /\ UNCHANGED <<file, call>>

Return(t) ==
    /\ decided[t]
    /\ call' = [call EXCEPT ![t] = "none"]
    /\ decided' = [decided EXCEPT ![t] = FALSE]
    /\ result' = [result EXCEPT ![t] = <<>>]
    /\ UNCHANGED <<content, file, pos, count>>

Next ==
    \E t \in Threads :
        \/ \E f \in Files : Open(t, f) \/ \E p \in 0 .. FileSize[f] : Seek(t, p)
        \/ \E c \in {"read", "write"}, f \in Files : \E k \in 0 .. FileSize[f] : Call(t, c, k)
        \/ Close(t) \/ Decide(t) \/ Return(t)

Spec == Init /\ [][Next]_vars

==============================================================================
