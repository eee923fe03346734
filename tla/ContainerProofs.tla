-------------------------- MODULE ContainerProofs --------------------------
(***************************************************************************)
(* Theorems about containers and passwords, for any files, passwords,      *)
(* texts, faults and any bounds.                                           *)
(***************************************************************************)
EXTENDS Container, FiniteSetTheorems, TLAPS

-----------------------------------------------------------------------------
(* The inductive invariant, in parts *)

(* What a phase knows of the run, of the target and of the containers *)
PhaseInv ==
  /\ pc \in {"open", "restore", "opened", "modes"} => op = "decrypt"
  /\ pc \in {"seal", "close", "rename"} => op = "encrypt"
  /\ pc = "ask" /\ op = "encrypt" => seals < MaxSeals
  /\ pc \in {"restore", "opened", "modes", "seal", "close", "rename"} => head \in Headers
  /\ pc \in {"idle", "next", "ask", "open", "restore"} => at = 0
  /\ pc = "opened" => at <= ChunksOf(head)
  /\ pc \in {"modes", "close"} => at = ChunksOf(head)
  /\ pc = "seal" => at < ChunksOf(head)
TargetInv == pc \in {"opened", "modes", "seal"} => plain[file] # Absent
ReadInv == op = "decrypt" => \A f \in Files : f \in todo \/ f = file => blob[f] # Absent

(* A password that is tried a second time was typed for this file. *)
PasswordInv ==
  /\ answer \in Passwords \cup {Absent}
  /\ retried /\ pc = "ask" => cache = Absent
  /\ retried /\ pc = "open" => cache \in Passwords /\ answer = cache

(* A chunk carries what it was sealed with, and only the one chunk of an
   empty file holds nothing. *)
MadeInv == \A c \in made : /\ c.index <= ChunksOf(c.header)
                           /\ c = Sealed(c.header, c.index, c.block)
                           /\ c.block = Absent <=> c.header.len = 0

(* No storage makes a chunk that opens. *)
Holds(b) == \A i \in 1..Len(b.chunks) : b.chunks[i] \in made \cup {Garbage}
StoreInv == \A f \in Files : /\ blob[f] # Absent => Holds(blob[f])
                             /\ part[f] # Absent => Holds(part[f])

(* The first k chunks of a container are those of its header, in order. *)
InOrder(b, h, k) == /\ b.header = h /\ Len(b.chunks) = k
                    /\ \A i \in 1..k : \E x \in Blocks \cup {Absent} : b.chunks[i] = Sealed(h, i, x)
Sound(b) == b.header \in Headers /\ InOrder(b, b.header, ChunksOf(b.header))
WholeInv == \A f \in Files \ (damaged \cup cut) : blob[f] # Absent => Sound(blob[f])
WritingInv ==
  /\ pc \in {"seal", "close"} => InOrder(part[file], head, at)
  /\ pc = "rename" /\ file \notin cut => Sound(part[file])

(* What has been streamed to the target is what was sealed under the header,
   as far as the chunks have been opened. *)
StreamInv ==
  pc \in {"opened", "modes"} =>
    LET t == plain[file].text IN
    /\ Len(t) = IF head.len = 0 THEN 0 ELSE at
    /\ \A i \in 1..at : Sealed(head, i, BlockAt(t, i)) \in made

(* Until it is truncated the target is as it was. *)
PriorInv == op = "decrypt" /\ pc \in {"ask", "open", "restore"} => plain[file] = prior
ContainerInv == /\ ContainerTypeOK /\ PhaseInv /\ TargetInv /\ ReadInv
                /\ PasswordInv /\ MadeInv
                /\ StoreInv /\ WholeInv /\ WritingInv /\ StreamInv /\ PriorInv

-----------------------------------------------------------------------------
(* Facts about headers, chunks and what a step may touch *)

(* how many chunks a header declares                                       *)
LEMMA HeaderFacts ==
  ASSUME NEW h \in Headers
  PROVE  /\ ChunksOf(h) \in 1..MaxChunks /\ h.len \in 0..MaxChunks
         /\ h # Absent /\ h.pw \in Passwords
BY ContainerAssumption DEF Headers, ChunksOf

(* what a sealed chunk carries                                             *)
LEMMA SealedFacts ==
  ASSUME NEW h \in Headers, NEW i \in 1..MaxChunks, NEW b \in Blocks \cup {Absent}
  PROVE  /\ Sealed(h, i, b) \in Chunks /\ Sealed(h, i, b) # Garbage
         /\ Sealed(h, i, b).header = h /\ Sealed(h, i, b).index = i
         /\ Sealed(h, i, b).block = b /\ Sealed(h, i, b).last = (i = ChunksOf(h))
<1>. DEFINE l == i = ChunksOf(h)
<1>1. l \in BOOLEAN /\ Sealed(h, i, b) = [header |-> h, index |-> i, last |-> l, block |-> b]
  BY DEF Sealed
<1>. HIDE DEF l
<1>2. /\ Sealed(h, i, b) \in Chunks
      /\ Sealed(h, i, b).header = h /\ Sealed(h, i, b).index = i
      /\ Sealed(h, i, b).block = b /\ Sealed(h, i, b).last = l
  BY <1>1 DEF Chunks
<1>3. Sealed(h, i, b) # Garbage
  BY <1>2, ContainerAssumption
<1>. QED
  BY <1>2, <1>3 DEF l

(* the steps of a process, without the disjuncts they are grouped in       *)
Acts == \/ \E o \in {"encrypt", "decrypt"}, fs \in SUBSET Files \ {{}} : Start(o, fs)
        \/ \E f \in todo : Take(f)
        \/ \E f \in Files : Edit(f) \/ Damage(f)
        \/ NoPassword \/ AskToDecrypt \/ Open \/ AskAgain \/ GiveUp \/ Unreadable \/ Truncate
        \/ StreamRest \/ StreamEnd \/ RestoreModes \/ StreamFails \/ FlushFails \/ AskToEncrypt \/ NoInput
        \/ Seal \/ DropWriter \/ RenamePart \/ SealFails \/ RenameFails \/ Finish \/ Crash
        \/ UNCHANGED vars

(* Every step is one of them.                                              *)
LEMMA StepsAre == [Next]_vars => Acts
BY DEF Next, Process, Decrypting, Encrypting, Rest, Acts

(* who writes what: a step that is none of these leaves the variable alone *)
LEMMA Untouched ==
  ASSUME [Next]_vars
  PROVE  /\ (\E f \in Files : Damage(f)) \/ RenamePart \/ UNCHANGED blob
         /\ AskToEncrypt \/ Seal \/ DropWriter \/ RenamePart \/ SealFails \/ UNCHANGED part
         /\ Seal \/ UNCHANGED made
         /\ (\E f \in Files : Damage(f)) \/ RenamePart \/ UNCHANGED damaged
         /\ FlushFails \/ DropWriter \/ UNCHANGED cut
         /\ \/ \E f \in Files : Edit(f)
            \/ Truncate \/ StreamRest \/ RestoreModes \/ StreamFails \/ FlushFails
            \/ UNCHANGED plain
<1>. USE DEF Leave, End, kept, vars
<1>1. ASSUME NEW o, NEW fs, Start(o, fs) PROVE UNCHANGED <<blob, part, made, damaged, cut, plain>>
  BY <1>1 DEF Start
<1>2. ASSUME NEW f, Take(f) PROVE UNCHANGED <<blob, part, made, damaged, cut, plain>>
  BY <1>2 DEF Take
<1>3. ASSUME NEW f \in Files, Edit(f) PROVE UNCHANGED <<blob, part, made, damaged, cut>>
  BY <1>3 DEF Edit
<1>4. ASSUME NEW f \in Files, Damage(f) PROVE UNCHANGED <<part, made, cut, plain>>
  BY <1>4 DEF Damage
<1>5. NoPassword => UNCHANGED <<blob, part, made, damaged, cut, plain>>
  BY DEF NoPassword
<1>6. AskToDecrypt => UNCHANGED <<blob, part, made, damaged, cut, plain>>
  BY DEF AskToDecrypt, Cached, Typed
<1>7. Open => UNCHANGED <<blob, part, made, damaged, cut, plain>>
  BY DEF Open
<1>8. AskAgain => UNCHANGED <<blob, part, made, damaged, cut, plain>>
  BY DEF AskAgain
<1>9. GiveUp => UNCHANGED <<blob, part, made, damaged, cut, plain>>
  BY DEF GiveUp
<1>10. Unreadable => UNCHANGED <<blob, part, made, damaged, cut, plain>>
  BY DEF Unreadable
<1>11. Truncate => UNCHANGED <<blob, part, made, damaged, cut>>
  BY DEF Truncate
<1>12. StreamRest => UNCHANGED <<blob, part, made, damaged, cut>>
  BY DEF StreamRest
<1>13. StreamEnd => UNCHANGED <<blob, part, made, damaged, cut, plain>>
  BY DEF StreamEnd
<1>14. RestoreModes => UNCHANGED <<blob, part, made, damaged, cut>>
  BY DEF RestoreModes
<1>15. StreamFails => UNCHANGED <<blob, part, made, damaged, cut>>
  BY DEF StreamFails, RemovePartial
<1>16. FlushFails => UNCHANGED <<blob, part, made, damaged>>
  BY DEF FlushFails, BufferLost
<1>17. AskToEncrypt => UNCHANGED <<blob, made, damaged, cut, plain>>
  BY DEF AskToEncrypt, Cached, Typed
<1>18. NoInput => UNCHANGED <<blob, part, made, damaged, cut, plain>>
  BY DEF NoInput
<1>19. Seal => UNCHANGED <<blob, damaged, cut, plain>>
  BY DEF Seal
<1>20. DropWriter => UNCHANGED <<blob, made, damaged, plain>>
  BY DEF DropWriter, BufferLost
<1>21. RenamePart => UNCHANGED <<made, cut, plain>>
  BY DEF RenamePart
<1>22. SealFails => UNCHANGED <<blob, made, damaged, cut, plain>>
  BY DEF SealFails, KeepOld
<1>23. RenameFails => UNCHANGED <<blob, part, made, damaged, cut, plain>>
  BY DEF RenameFails
<1>24. Finish => UNCHANGED <<blob, part, made, damaged, cut, plain>>
  BY DEF Finish
<1>25. Crash => UNCHANGED <<blob, part, made, damaged, cut, plain>>
  BY DEF Crash
<1>. QED
  BY StepsAre, <1>1, <1>2, <1>3, <1>4, <1>5, <1>6, <1>7, <1>8, <1>9, <1>10, <1>11, <1>12, <1>13,
     <1>14, <1>15, <1>16, <1>17, <1>18, <1>19, <1>20, <1>21, <1>22, <1>23, <1>24, <1>25 DEF Acts
-----------------------------------------------------------------------------
(* What damage and what is written can be                                  *)

(* Damage leaves a container made of pieces of containers.                 *)
LEMMA DamagedBlob ==
  ASSUME made \subseteq Chunks, NEW b \in Blobs, Holds(b), NEW d \in Damages(b)
  PROVE  d \in Blobs /\ Holds(d)
<1>. DEFINE P == made \cup {Garbage}
            With(cs) == [b EXCEPT !.chunks = cs]
<1>1. b.chunks \in Seq(P)
  BY DEF Holds, Blobs
<1>2. ASSUME NEW cs \in Seq(P) PROVE With(cs) \in Blobs /\ Holds(With(cs))
  BY DEF Holds, Blobs
<1>. HIDE DEF With
<1>3. ASSUME NEW k \in 0..(Len(b.chunks) - 1) PROVE SubSeq(b.chunks, 1, k) \in Seq(P)
  BY <1>1
<1>4. ASSUME NEW c \in P PROVE Append(b.chunks, c) \in Seq(P)
  BY <1>1
<1>5. ASSUME NEW i \in DOMAIN b.chunks, NEW c \in P PROVE [b.chunks EXCEPT ![i] = c] \in Seq(P)
  BY <1>1
<1>6. ASSUME NEW i \in DOMAIN b.chunks, NEW j \in DOMAIN b.chunks
      PROVE  [b.chunks EXCEPT ![i] = b.chunks[j], ![j] = b.chunks[i]] \in Seq(P)
  BY <1>1
<1>7. ASSUME NEW c \in made
      PROVE [b EXCEPT !.header = c.header] \in Blobs /\ Holds([b EXCEPT !.header = c.header])
  BY <1>7 DEF Holds, Blobs, Chunks
<1>. DEFINE Cut == {With(SubSeq(b.chunks, 1, k)) : k \in 0..(Len(b.chunks) - 1)}
            Grown == {With(Append(b.chunks, c)) : c \in P}
            Replaced == {With([b.chunks EXCEPT ![i] = c]) : i \in DOMAIN b.chunks, c \in P}
            Swapped == {With([b.chunks EXCEPT ![i] = b.chunks[j], ![j] = b.chunks[i]]) :
                          i, j \in DOMAIN b.chunks}
            Other == {[b EXCEPT !.header = c.header] : c \in made}
<1>8. Damages(b) = Cut \cup Grown \cup Replaced \cup Swapped \cup Other
  BY DEF Damages, With
<1>. DEFINE Good(e) == e \in Blobs /\ Holds(e)
<1>. HIDE DEF Good
<1>9. \A e \in Cut : Good(e)
  BY <1>2, <1>3 DEF Good
<1>10. \A e \in Grown : Good(e)
  BY <1>2, <1>4 DEF Good
<1>11. \A e \in Replaced : Good(e)
  <2>. HIDE DEF Replaced
  <2>. SUFFICES ASSUME NEW e \in Replaced PROVE Good(e)
    OBVIOUS
  <2>1. PICK i \in DOMAIN b.chunks, c \in P : e = With([b.chunks EXCEPT ![i] = c])
    BY DEF Replaced
  <2>. QED
    BY <1>2, <1>5, <2>1 DEF Good
<1>12. \A e \in Swapped : Good(e)
  <2>. SUFFICES ASSUME NEW e \in Swapped PROVE Good(e)
    OBVIOUS
  <2>1. PICK i \in DOMAIN b.chunks, j \in DOMAIN b.chunks :
          e = With([b.chunks EXCEPT ![i] = b.chunks[j], ![j] = b.chunks[i]])
    OBVIOUS
  <2>. QED
    BY <1>2, <1>6, <2>1 DEF Good
<1>13. \A e \in Other : Good(e)
  BY <1>7 DEF Good
<1>. HIDE DEF Cut, Grown, Replaced, Swapped, Other
<1>14. Good(d)
  BY <1>8, <1>9, <1>10, <1>11, <1>12, <1>13
<1>. QED
  BY <1>14 DEF Good

(* The parts of the type invariant *)
FileTypes ==
  /\ plain \in [Files -> Targets \cup {Absent}]
  /\ blob \in [Files -> Blobs \cup {Absent}]
  /\ part \in [Files -> Blobs \cup {Absent}]
  /\ made \subseteq Chunks /\ damaged \subseteq Files /\ cut \subseteq Files
RunTypes ==
  /\ cache \in Passwords \cup {Absent}
  /\ op \in {"none", "encrypt", "decrypt"}
  /\ todo \subseteq Files /\ file \in Files \cup {Absent} /\ pc \in Phases
  /\ head \in Headers \cup {Absent} /\ at \in 0..MaxChunks /\ retried \in BOOLEAN
  /\ events \in 0..MaxEvents /\ seals \in 0..MaxSeals
RunParts ==
  /\ pc \in {"idle", "next"} <=> file = Absent
  /\ pc = "idle" <=> op = "none"
  /\ pc \in {"seal", "close", "rename"} => part[file] # Absent

(* Together they are the type invariant.                                   *)
LEMMA TypesAre == ContainerTypeOK <=> FileTypes /\ RunTypes /\ RunParts
BY DEF ContainerTypeOK, FileTypes, RunTypes, RunParts

(* What is streamed, cut or given to a target is a text.                   *)
LEMMA TextTypes ==
  ASSUME NEW t \in Targets
  PROVE  /\ \A c \in Blocks : Len(t.text) < MaxChunks =>
                 [t EXCEPT !.text = Append(@, c)] \in Targets
         /\ t.text # << >> => [t EXCEPT !.text = SubSeq(@, 1, Len(@) - 1)] \in Targets
         /\ [t EXCEPT !.mode = "recorded"] \in Targets
         /\ [text |-> << >>, mode |-> "private"] \in Targets
         /\ [text |-> << >>, mode |-> t.mode] \in Targets
<1>1. t.text \in Seq(Blocks) /\ Len(t.text) <= MaxChunks /\ t.mode \in {"private", "recorded"}
  BY DEF Targets, Contents
<1>2. ASSUME NEW x \in Contents PROVE [t EXCEPT !.text = x] \in Targets
  BY DEF Targets
<1>3. ASSUME NEW c \in Blocks, Len(t.text) < MaxChunks PROVE Append(t.text, c) \in Contents
  BY <1>1, <1>3, ContainerAssumption DEF Contents
<1>4. ASSUME t.text # << >> PROVE SubSeq(t.text, 1, Len(t.text) - 1) \in Contents
  BY <1>1, <1>4, ContainerAssumption DEF Contents
<1>5. << >> \in Contents
  BY ContainerAssumption DEF Contents
<1>6. [t EXCEPT !.mode = "recorded"] \in Targets
  BY DEF Targets
<1>. QED
  BY <1>1, <1>2, <1>3, <1>4, <1>5, <1>6 DEF Targets

(* What a container gains or loses stays one.                              *)
LEMMA BlobTypes ==
  ASSUME NEW b \in Blobs
  PROVE  /\ \A c \in Chunks : [b EXCEPT !.chunks = Append(@, c)] \in Blobs
         /\ Unwritten(b) \subseteq Blobs \/ Len(b.chunks) = 0
<1>1. b.chunks \in Seq(Chunks \cup {Garbage}) /\ b.header \in Headers \cup {Absent}
  BY DEF Blobs
<1>2. ASSUME NEW c \in Chunks PROVE [b EXCEPT !.chunks = Append(@, c)] \in Blobs
  BY <1>1 DEF Blobs
<1>3. ASSUME Len(b.chunks) # 0 PROVE Unwritten(b) \subseteq Blobs
  <2>1. SubSeq(b.chunks, 1, Len(b.chunks) - 1) \in Seq(Chunks \cup {Garbage})
    BY <1>1, <1>3
  <2>. QED
    BY <1>1, <2>1 DEF Unwritten, Blobs
<1>. QED
  BY <1>2, <1>3

(* The chunk that is streamed, and what becomes of the target *)
NextChunk == blob[file].chunks[at + 1]
Streamed == IF NextChunk.block = Absent THEN plain[file]
            ELSE [plain[file] EXCEPT !.text = Append(@, NextChunk.block)]
(* A chunk that is streamed was sealed, under the header of the container  *)
(* and for its place.                                                      *)
LEMMA StreamFacts ==
  ASSUME ContainerInv, StreamRest
  PROVE  /\ file \in Files /\ head \in Headers
         /\ at \in Nat /\ at < ChunksOf(head) /\ ChunksOf(head) \in 1..MaxChunks
         /\ NextChunk \in made /\ NextChunk \in Chunks
         /\ NextChunk.header = head /\ NextChunk.index = at + 1
         /\ Streamed \in Targets /\ plain' = [plain EXCEPT ![file] = Streamed]
<1>0. FileTypes /\ RunTypes /\ RunParts /\ TargetInv
  BY TypesAre DEF ContainerInv
<1>1. file \in Files /\ head \in Headers /\ blob[file] \in Blobs /\ Holds(blob[file])
  BY <1>0 DEF StreamRest, RunTypes, RunParts, FileTypes, ContainerInv, PhaseInv, ReadInv, StoreInv
<1>2. at \in Nat /\ at < ChunksOf(head) /\ ChunksOf(head) \in 1..MaxChunks
  BY <1>0, <1>1, HeaderFacts, ContainerAssumption DEF StreamRest, RunTypes
<1>3. NextChunk \in made /\ NextChunk.header = head /\ NextChunk.index = at + 1
  BY <1>1, <1>2 DEF NextChunk, StreamRest, Openable, Opens, Has, Holds, Blobs
<1>4. NextChunk \in Chunks /\ NextChunk.block \in Blocks \cup {Absent}
  BY <1>0, <1>3 DEF FileTypes, Chunks
<1>5. plain[file] \in Targets
  BY <1>0, <1>1 DEF FileTypes, TargetInv, StreamRest
<1>6. Len(plain[file].text) < MaxChunks
  BY <1>2, ContainerAssumption DEF StreamRest, ContainerInv, StreamInv
<1>7. \A e \in Blocks : [plain[file] EXCEPT !.text = Append(@, e)] \in Targets
  BY <1>5, <1>6, TextTypes
<1>8. Streamed \in Targets
  BY <1>4, <1>5, <1>7 DEF Streamed
<1>9. [plain[file] EXCEPT !.text = @] = plain[file]
  BY <1>5 DEF Targets
<1>10. plain' = [plain EXCEPT ![file] = Streamed]
  BY <1>9 DEF StreamRest, Streamed, NextChunk
<1>. QED
  BY <1>1, <1>2, <1>3, <1>4, <1>8, <1>10

(* Every step keeps the types of the files ...                             *)
LEMMA FileTypesStep ==
  ASSUME ContainerInv, [Next]_vars
  PROVE  FileTypes'
<1>0. FileTypes /\ RunTypes /\ RunParts
  BY TypesAre DEF ContainerInv
<1>. USE DEF FileTypes, RunTypes, RunParts
<1>1. ASSUME NEW f \in Files, Edit(f) PROVE plain' \in [Files -> Targets \cup {Absent}]
  BY <1>0, <1>1, ContainerAssumption DEF Edit, Targets
<1>2. ASSUME NEW f \in Files, Damage(f) PROVE blob' \in [Files -> Blobs \cup {Absent}]
  BY <1>0, <1>2, DamagedBlob DEF Damage, ContainerInv, StoreInv
<1>3. (\E f \in Files : Damage(f)) \/ RenamePart => damaged' \subseteq Files
  BY <1>0 DEF Damage, RenamePart
<1>4. FlushFails \/ DropWriter => cut' \subseteq Files
  BY <1>0, ContainerAssumption DEF FlushFails, DropWriter, BufferLost, Phases
<1>5. pc \notin {"idle", "next"} => file \in Files
  BY <1>0 DEF Phases
<1>7. pc \in {"opened", "modes"} => head \in Headers /\ blob[file] \in Blobs /\ Holds(blob[file])
  BY <1>0, <1>5 DEF ContainerInv, PhaseInv, TargetInv, ReadInv, StoreInv
<1>6. ASSUME Truncate \/ StreamRest \/ RestoreModes \/ StreamFails \/ FlushFails
      PROVE  plain' \in [Files -> Targets \cup {Absent}]
  <2>1. file \in Files /\ plain[file] \in Targets \cup {Absent}
    BY <1>0, <1>5, <1>6 DEF Truncate, StreamRest, RestoreModes, StreamFails, FlushFails
  <2>2. pc \in {"opened", "modes"} => plain[file] \in Targets
    BY <2>1 DEF ContainerInv, PhaseInv, TargetInv, ReadInv
  <2>3. ASSUME NEW x \in Targets \cup {Absent}, plain' = [plain EXCEPT ![file] = x]
        PROVE  plain' \in [Files -> Targets \cup {Absent}]
    BY <1>0, <2>3
  <2>4. CASE Truncate
    <3>. DEFINE x == [text |-> << >>, mode |-> IF plain[file] = Absent THEN "private" ELSE plain[file].mode]
    <3>1. x \in Targets
      BY <2>1, ContainerAssumption DEF Targets, Contents
    <3>. QED
      BY <2>3, <2>4, <3>1 DEF Truncate
  <2>5. CASE StreamRest
    BY <2>3, <2>5, StreamFacts DEF StreamRest, Streamed, NextChunk
  <2>6. CASE RestoreModes
    <3>1. plain' = [plain EXCEPT ![file] = [plain[file] EXCEPT !.mode = "recorded"]]
      BY <2>6 DEF RestoreModes
    <3>. QED
      BY <2>2, <2>3, <2>6, <3>1, TextTypes DEF RestoreModes
  <2>7. CASE StreamFails
    BY <1>0, <2>7 DEF StreamFails, RemovePartial
  <2>8. CASE FlushFails
    <3>1. plain' = [plain EXCEPT ![file] = [plain[file] EXCEPT !.text = SubSeq(@, 1, Len(@) - 1)]]
      BY <2>8 DEF FlushFails
    <3>. QED
      BY <2>2, <2>3, <2>8, <3>1, TextTypes DEF FlushFails
  <2>. QED
    BY <1>6, <2>4, <2>5, <2>6, <2>7, <2>8
<1>8. ASSUME Seal PROVE part' \in [Files -> Blobs \cup {Absent}] /\ made' \subseteq Chunks
  <2>. DEFINE b == IF head.len = 0 THEN Absent ELSE plain[file].text[at + 1]
              c == Sealed(head, at + 1, b)
  <2>1. file \in Files /\ head \in Headers /\ plain[file] \in Targets /\ part[file] \in Blobs
    BY <1>0, <1>5, <1>8 DEF Seal, ContainerInv, PhaseInv, TargetInv
  <2>2. at + 1 \in 1..MaxChunks
    BY <1>0, <1>8, <2>1, HeaderFacts, ContainerAssumption DEF Seal, ContainerInv, PhaseInv
  <2>3. b \in Blocks \cup {Absent}
    BY <1>8, <2>1, <2>2 DEF Seal, Short, Targets, Contents
  <2>4. c \in Chunks
    BY <2>1, <2>2, <2>3, SealedFacts
  <2>5. /\ part' = [part EXCEPT ![file] = [part[file] EXCEPT !.chunks = Append(@, c)]]
        /\ made' = made \cup {c}
    BY <1>8 DEF Seal
  <2>. HIDE DEF c
  <2>6. [part[file] EXCEPT !.chunks = Append(@, c)] \in Blobs
    BY <2>1, <2>4, BlobTypes
  <2>. QED
    BY <1>0, <2>4, <2>5, <2>6
<1>9. ASSUME AskToEncrypt PROVE part' \in [Files -> Blobs \cup {Absent}]
  <2>. DEFINE h == [id |-> seals + 1, pw |-> cache', len |-> Len(plain[file].text)]
  <2>1. file \in Files /\ plain[file] \in Targets /\ cache' \in Passwords
    BY <1>0, <1>5, <1>9 DEF AskToEncrypt, Cached, Typed
  <2>2. seals + 1 \in 1..MaxSeals
    BY <1>0, <1>9, ContainerAssumption DEF AskToEncrypt, Cached, Typed, ContainerInv, PhaseInv
  <2>3. Len(plain[file].text) \in 0..MaxChunks
    BY <2>1, ContainerAssumption DEF Targets, Contents
  <2>4. h \in Headers
    BY <2>1, <2>2, <2>3 DEF Headers
  <2>5. [header |-> h, chunks |-> << >>] \in Blobs
    BY <2>4 DEF Blobs
  <2>. QED
    BY <1>0, <1>9, <2>5 DEF AskToEncrypt
<1>10. ASSUME DropWriter \/ RenamePart \/ SealFails PROVE part' \in [Files -> Blobs \cup {Absent}]
  <2>1. CASE DropWriter
    <3>1. file \in Files /\ part[file] \in Blobs /\ Len(part[file].chunks) # 0
      BY <1>0, <1>5, <2>1, HeaderFacts DEF DropWriter, ContainerInv, PhaseInv, WritingInv, InOrder
    <3>2. \A b \in Unwritten(part[file]) : b \in Blobs
      BY <3>1, BlobTypes
    <3>. QED
      BY <1>0, <2>1, <3>2 DEF DropWriter
  <2>2. CASE RenamePart \/ SealFails
    BY <1>0, <2>2 DEF RenamePart, SealFails
  <2>. QED
    BY <1>10, <2>1, <2>2
<1>11. RenamePart => blob' \in [Files -> Blobs \cup {Absent}]
  BY <1>0, <1>5 DEF RenamePart
<1>. QED
  BY <1>0, <1>1, <1>2, <1>3, <1>4, <1>6, <1>8, <1>9, <1>10, <1>11, Untouched
(* What Leave and End set has the types of the run.                        *)
LEMMA LeftTypes ==
  ASSUME Leave
  PROVE  /\ file' \in Files \cup {Absent} /\ pc' \in Phases
         /\ head' \in Headers \cup {Absent} /\ at' \in 0..MaxChunks
         /\ retried' \in BOOLEAN
<1>1. at' \in 0..MaxChunks
  BY ContainerAssumption DEF Leave
<1>2. retried' \in BOOLEAN
  BY DEF Leave
<1>. QED
  BY <1>1, <1>2 DEF Leave, Phases

(* A process that ends keeps the types.                                    *)
LEMMA EndedTypes ==
  ASSUME End, seals \in 0..MaxSeals
  PROVE  /\ file' \in Files \cup {Absent} /\ pc' \in Phases
         /\ head' \in Headers \cup {Absent} /\ at' \in 0..MaxChunks
         /\ retried' \in BOOLEAN /\ cache' \in Passwords \cup {Absent}
         /\ op' \in {"none", "encrypt", "decrypt"} /\ todo' \subseteq Files
         /\ seals' \in 0..MaxSeals
<1>1. at' \in 0..MaxChunks
  BY ContainerAssumption DEF End
<1>2. retried' \in BOOLEAN
  BY DEF End
<1>. QED
  BY <1>1, <1>2 DEF End, Phases

(* the header of a new container                                           *)
LEMMA NewHeader ==
  ASSUME ContainerInv, AskToEncrypt
  PROVE  head' \in Headers
<1>1. file \in Files /\ plain[file] \in Targets /\ cache' \in Passwords
  BY TypesAre DEF ContainerInv, AskToEncrypt, Cached, Typed, FileTypes, RunTypes, RunParts
<1>2. seals + 1 \in 1..MaxSeals
  BY TypesAre, ContainerAssumption DEF AskToEncrypt, Cached, Typed, ContainerInv, PhaseInv, RunTypes
<1>3. Len(plain[file].text) \in 0..MaxChunks
  BY <1>1, ContainerAssumption DEF Targets, Contents
<1>. QED
  BY <1>1, <1>2, <1>3 DEF AskToEncrypt, Headers

(* ... the types of the run ...                                            *)
LEMMA RunTypesStep ==
  ASSUME ContainerInv, [Next]_vars
  PROVE  RunTypes'
<1>0. /\ RunTypes
      /\ MaxChunks \in Nat /\ MaxSeals \in Nat /\ MaxEvents \in Nat
  BY TypesAre, ContainerAssumption DEF ContainerInv
<1>. USE <1>0 DEF RunTypes, Phases, kept
<1>1. ASSUME NEW o \in {"encrypt", "decrypt"}, NEW fs \in SUBSET Files \ {{}}, Start(o, fs)
      PROVE  RunTypes'
  BY <1>1 DEF Start
<1>2. ASSUME NEW f \in todo, Take(f) PROVE RunTypes'
  BY <1>2 DEF Take
<1>3. ASSUME NEW f \in Files, Edit(f) PROVE RunTypes'
  BY <1>3 DEF Edit
<1>4. ASSUME NEW f \in Files, Damage(f) PROVE RunTypes'
  BY <1>4 DEF Damage
<1>5. ASSUME NoPassword PROVE RunTypes'
  BY <1>5, LeftTypes DEF NoPassword
<1>6. ASSUME AskToDecrypt PROVE RunTypes'
  BY <1>6 DEF AskToDecrypt, Cached, Typed
<1>7. ASSUME Open PROVE RunTypes'
  <2>1. file \in Files /\ blob[file] \in Blobs
    BY <1>7, TypesAre DEF ContainerInv, PhaseInv, TargetInv, ReadInv, Open, FileTypes, RunParts
  <2>. QED
    BY <1>7, <2>1 DEF Open, Blobs
<1>8. ASSUME AskAgain PROVE RunTypes'
  BY <1>8 DEF AskAgain, Rejected
<1>9. ASSUME GiveUp PROVE RunTypes'
  BY <1>9, LeftTypes DEF GiveUp, Rejected
<1>10. ASSUME Unreadable PROVE RunTypes'
  BY <1>10, LeftTypes DEF Unreadable
<1>11. ASSUME Truncate PROVE RunTypes'
  BY <1>11 DEF Truncate
<1>12. ASSUME StreamRest PROVE RunTypes'
  <2>1. at + 1 \in 0..MaxChunks
    BY <1>12, HeaderFacts DEF ContainerInv, PhaseInv, TargetInv, ReadInv, StreamRest
  <2>. QED
    BY <1>12, <2>1 DEF StreamRest
<1>13. ASSUME StreamEnd PROVE RunTypes'
  BY <1>13 DEF StreamEnd
<1>14. ASSUME RestoreModes PROVE RunTypes'
  BY <1>14, LeftTypes DEF RestoreModes
<1>15. ASSUME StreamFails PROVE RunTypes'
  BY <1>15, LeftTypes DEF StreamFails, RemovePartial
<1>16. ASSUME FlushFails PROVE RunTypes'
  BY <1>16, LeftTypes DEF FlushFails, BufferLost
<1>17. ASSUME AskToEncrypt PROVE RunTypes'
  <2>1. seals' \in 0..MaxSeals
    BY <1>17 DEF AskToEncrypt, Cached, Typed, ContainerInv, PhaseInv
  <2>2. head' \in Headers
    BY <1>17, NewHeader
  <2>3. events' = events /\ cache' \in Passwords
    BY <1>17 DEF AskToEncrypt, Cached, Typed
  <2>. QED
    BY <1>17, <2>1, <2>2, <2>3 DEF AskToEncrypt
<1>18. ASSUME NoInput PROVE RunTypes'
  BY <1>18, LeftTypes DEF NoInput
<1>19. ASSUME Seal PROVE RunTypes'
  <2>1. at + 1 \in 0..MaxChunks
    BY <1>19, HeaderFacts DEF ContainerInv, PhaseInv, TargetInv, ReadInv, Seal
  <2>. QED
    BY <1>19, <2>1 DEF Seal
<1>20. ASSUME DropWriter PROVE RunTypes'
  BY <1>20 DEF DropWriter, BufferLost
<1>21. ASSUME RenamePart PROVE RunTypes'
  BY <1>21, LeftTypes DEF RenamePart
<1>22. ASSUME SealFails PROVE RunTypes'
  BY <1>22, LeftTypes DEF SealFails, KeepOld
<1>23. ASSUME RenameFails PROVE RunTypes'
  BY <1>23, LeftTypes DEF RenameFails
<1>24. ASSUME Finish PROVE RunTypes'
  BY <1>24, EndedTypes DEF Finish
<1>25. ASSUME Crash PROVE RunTypes'
  BY <1>25, EndedTypes DEF Crash
<1>26. ASSUME UNCHANGED vars PROVE RunTypes'
  BY <1>26 DEF vars
<1>. QED
  BY StepsAre, <1>1, <1>2, <1>3, <1>4, <1>5, <1>6, <1>7, <1>8, <1>9, <1>10, <1>11,
     <1>12, <1>13, <1>14, <1>15, <1>16, <1>17, <1>18, <1>19, <1>20, <1>21,
     <1>22, <1>23, <1>24, <1>25, <1>26 DEF Acts

(* ... and how they hang together.                                         *)
LEMMA RunPartsStep ==
  ASSUME ContainerInv, [Next]_vars
  PROVE  RunParts'
<1>0. RunParts /\ RunTypes /\ FileTypes /\ Absent \notin Files /\ Absent \notin Blobs
  BY TypesAre, ContainerAssumption DEF ContainerInv
<1>. USE <1>0 DEF RunParts, kept
<1>1. ASSUME NEW o \in {"encrypt", "decrypt"}, NEW fs \in SUBSET Files \ {{}}, Start(o, fs)
      PROVE  RunParts'
  BY <1>1 DEF Start
<1>2. ASSUME NEW f \in todo, Take(f) PROVE RunParts'
  BY <1>2 DEF Take, RunTypes
<1>3. ASSUME NEW f \in Files, Edit(f) PROVE RunParts'
  BY <1>3 DEF Edit
<1>4. ASSUME NEW f \in Files, Damage(f) PROVE RunParts'
  BY <1>4 DEF Damage
<1>5. ASSUME NoPassword PROVE RunParts'
  BY <1>5 DEF NoPassword, Leave
<1>6. ASSUME AskToDecrypt PROVE RunParts'
  BY <1>6 DEF AskToDecrypt, Cached, Typed
<1>7. ASSUME Open PROVE RunParts'
  BY <1>7 DEF Open
<1>8. ASSUME AskAgain PROVE RunParts'
  BY <1>8 DEF AskAgain, Rejected
<1>9. ASSUME GiveUp PROVE RunParts'
  BY <1>9 DEF GiveUp, Leave, Rejected
<1>10. ASSUME Unreadable PROVE RunParts'
  BY <1>10 DEF Unreadable, Leave
<1>11. ASSUME Truncate PROVE RunParts'
  BY <1>11 DEF Truncate
<1>12. ASSUME StreamRest PROVE RunParts'
  BY <1>12 DEF StreamRest
<1>13. ASSUME StreamEnd PROVE RunParts'
  BY <1>13 DEF StreamEnd
<1>14. ASSUME RestoreModes PROVE RunParts'
  BY <1>14 DEF RestoreModes, Leave
<1>15. ASSUME StreamFails PROVE RunParts'
  BY <1>15 DEF StreamFails, RemovePartial, Leave
<1>16. ASSUME FlushFails PROVE RunParts'
  BY <1>16 DEF FlushFails, BufferLost, Leave
<1>17. ASSUME AskToEncrypt PROVE RunParts'
  <2>1. [header |-> head', chunks |-> << >>] \in Blobs
    BY RunTypesStep DEF RunTypes, Blobs
  <2>2. part'[file] # Absent
    BY <1>17, <2>1 DEF AskToEncrypt, FileTypes, RunTypes, Cached, Typed
  <2>. QED
    BY <1>17, <2>2 DEF AskToEncrypt, Cached, Typed
<1>18. ASSUME NoInput PROVE RunParts'
  BY <1>18 DEF NoInput, Leave
<1>19. ASSUME Seal PROVE RunParts'
  <2>. DEFINE c == Sealed(head, at + 1, IF head.len = 0 THEN Absent ELSE plain[file].text[at + 1])
  <2>1. /\ part' = [part EXCEPT ![file] = [part[file] EXCEPT !.chunks = Append(@, c)]]
        /\ made' = made \cup {c} /\ file \in Files /\ part[file] \in Blobs
    BY <1>19 DEF Seal, RunTypes, FileTypes
  <2>2. c \in Chunks
    BY <2>1, FileTypesStep DEF FileTypes
  <2>. HIDE DEF c
  <2>3. part'[file] # Absent
    BY <2>1, <2>2, BlobTypes DEF FileTypes
  <2>. QED
    BY <1>19, <2>3 DEF Seal
<1>20. ASSUME DropWriter PROVE RunParts'
  <2>1. file \in Files /\ part[file] \in Blobs /\ Len(part[file].chunks) # 0
    BY <1>20, HeaderFacts DEF DropWriter, ContainerInv, PhaseInv, WritingInv, InOrder,
       FileTypes, RunTypes
  <2>2. \A b \in Unwritten(part[file]) : b \in Blobs
    BY <2>1, BlobTypes
  <2>3. part'[file] # Absent
    BY <1>20, <2>1, <2>2 DEF DropWriter, FileTypes
  <2>. QED
    BY <1>20, <2>3 DEF DropWriter
<1>21. ASSUME RenamePart PROVE RunParts'
  BY <1>21 DEF RenamePart, Leave
<1>22. ASSUME SealFails PROVE RunParts'
  BY <1>22 DEF SealFails, KeepOld, Leave
<1>23. ASSUME RenameFails PROVE RunParts'
  BY <1>23 DEF RenameFails, Leave
<1>24. ASSUME Finish PROVE RunParts'
  BY <1>24 DEF Finish, End
<1>25. ASSUME Crash PROVE RunParts'
  BY <1>25 DEF Crash, End
<1>26. ASSUME UNCHANGED vars PROVE RunParts'
  BY <1>26 DEF vars
<1>. QED
  BY StepsAre, <1>1, <1>2, <1>3, <1>4, <1>5, <1>6, <1>7, <1>8, <1>9, <1>10, <1>11,
     <1>12, <1>13, <1>14, <1>15, <1>16, <1>17, <1>18, <1>19, <1>20, <1>21,
     <1>22, <1>23, <1>24, <1>25, <1>26 DEF Acts

(* So every step keeps the type invariant. *)
LEMMA TypeStep ==
  ASSUME ContainerInv, [Next]_vars
  PROVE  ContainerTypeOK'
<1>1. FileTypes' /\ RunTypes' /\ RunParts'
  BY FileTypesStep, RunTypesStep, RunPartsStep
<1>. QED
  BY <1>1 DEF ContainerTypeOK, FileTypes, RunTypes, RunParts

-----------------------------------------------------------------------------
(* The other parts of the invariant                                        *)

(* Every step keeps what its phase knows of the run, *)
LEMMA PhaseStep ==
  ASSUME ContainerInv, [Next]_vars
  PROVE  PhaseInv'
<1>0. /\ PhaseInv /\ RunTypes /\ RunParts /\ RunTypes'
      /\ MaxChunks \in Nat \ {0}
      /\ EditPhases \subseteq {"idle", "next", "seal", "close", "rename"}
  BY TypesAre, RunTypesStep, ContainerAssumption DEF ContainerInv
<1>h. \A h \in Headers : ChunksOf(h) \in 1..MaxChunks
  BY HeaderFacts
<1>. USE <1>0, <1>h DEF PhaseInv, RunTypes, RunParts, kept
<1>1. ASSUME NEW o \in {"encrypt", "decrypt"}, NEW fs \in SUBSET Files \ {{}}, Start(o, fs)
      PROVE  PhaseInv'
  BY <1>1 DEF Start
<1>2. ASSUME NEW f \in todo, Take(f) PROVE PhaseInv'
  BY <1>2 DEF Take
<1>3. ASSUME NEW f \in Files, Edit(f) PROVE PhaseInv'
  BY <1>3 DEF Edit
<1>4. ASSUME NEW f \in Files, Damage(f) PROVE PhaseInv'
  BY <1>4 DEF Damage
<1>5. ASSUME NoPassword PROVE PhaseInv'
  BY <1>5 DEF NoPassword, Leave
<1>6. ASSUME AskToDecrypt PROVE PhaseInv'
  BY <1>6 DEF AskToDecrypt, Cached, Typed
<1>7. ASSUME Open PROVE PhaseInv'
  BY <1>7 DEF Open
<1>8. ASSUME AskAgain PROVE PhaseInv'
  BY <1>8 DEF AskAgain, Rejected
<1>9. ASSUME GiveUp PROVE PhaseInv'
  BY <1>9 DEF GiveUp, Leave, Rejected
<1>10. ASSUME Unreadable PROVE PhaseInv'
  BY <1>10 DEF Unreadable, Leave
<1>11. ASSUME Truncate PROVE PhaseInv'
  BY <1>11 DEF Truncate
<1>12. ASSUME StreamRest PROVE PhaseInv'
  BY <1>12 DEF StreamRest
<1>13. ASSUME StreamEnd PROVE PhaseInv'
  BY <1>13 DEF StreamEnd
<1>14. ASSUME RestoreModes PROVE PhaseInv'
  BY <1>14 DEF RestoreModes, Leave
<1>15. ASSUME StreamFails PROVE PhaseInv'
  BY <1>15 DEF StreamFails, RemovePartial, Leave
<1>16. ASSUME FlushFails PROVE PhaseInv'
  BY <1>16 DEF FlushFails, BufferLost, Leave
<1>17. ASSUME AskToEncrypt PROVE PhaseInv'
  <2>1. pc' = "seal" /\ op' = "encrypt" /\ at' = 0
    BY <1>17 DEF AskToEncrypt, Cached, Typed
  <2>2. head' \in Headers
    BY <1>17, NewHeader
  <2>. QED
    BY <2>1, <2>2
<1>18. ASSUME NoInput PROVE PhaseInv'
  BY <1>18 DEF NoInput, Leave
<1>19. ASSUME Seal PROVE PhaseInv'
  BY <1>19 DEF Seal
<1>20. ASSUME DropWriter PROVE PhaseInv'
  BY <1>20 DEF DropWriter, BufferLost
<1>21. ASSUME RenamePart PROVE PhaseInv'
  BY <1>21 DEF RenamePart, Leave
<1>22. ASSUME SealFails PROVE PhaseInv'
  BY <1>22 DEF SealFails, KeepOld, Leave
<1>23. ASSUME RenameFails PROVE PhaseInv'
  BY <1>23 DEF RenameFails, Leave
<1>24. ASSUME Finish PROVE PhaseInv'
  BY <1>24 DEF Finish, End
<1>25. ASSUME Crash PROVE PhaseInv'
  BY <1>25 DEF Crash, End
<1>26. ASSUME UNCHANGED vars PROVE PhaseInv'
  BY <1>26 DEF vars
<1>. QED
  BY StepsAre, <1>1, <1>2, <1>3, <1>4, <1>5, <1>6, <1>7, <1>8, <1>9, <1>10, <1>11,
     <1>12, <1>13, <1>14, <1>15, <1>16, <1>17, <1>18, <1>19, <1>20, <1>21,
     <1>22, <1>23, <1>24, <1>25, <1>26 DEF Acts

(* of its target, *)
LEMMA TargetStep ==
  ASSUME ContainerInv, [Next]_vars
  PROVE  TargetInv'
<1>0. TargetInv /\ FileTypes /\ RunTypes /\ RunParts
  BY TypesAre DEF ContainerInv
<1>. USE <1>0 DEF TargetInv, kept
<1>1. ASSUME NEW o \in {"encrypt", "decrypt"}, NEW fs \in SUBSET Files \ {{}}, Start(o, fs)
      PROVE  TargetInv'
  BY <1>1 DEF Start
<1>2. ASSUME NEW f \in todo, Take(f) PROVE TargetInv'
  BY <1>2 DEF Take
<1>3. ASSUME NEW f \in Files, Edit(f) PROVE TargetInv'
  <2>. PICK x : plain' = [plain EXCEPT ![f] = x] /\ x # Absent
    <3>1. PICK c \in NewTexts : plain' = [plain EXCEPT ![f] = [text |-> c, mode |-> "recorded"]]
      BY <1>3 DEF Edit
    <3>2. [text |-> c, mode |-> "recorded"] \in Targets
      BY ContainerAssumption DEF Targets
    <3>. QED
      BY <3>1, <3>2, ContainerAssumption
  <2>. QED
    BY <1>3 DEF Edit, FileTypes
<1>4. ASSUME NEW f \in Files, Damage(f) PROVE TargetInv'
  BY <1>4 DEF Damage
<1>5. ASSUME NoPassword PROVE TargetInv'
  BY <1>5 DEF NoPassword, Leave
<1>6. ASSUME AskToDecrypt PROVE TargetInv'
  BY <1>6 DEF AskToDecrypt, Cached, Typed
<1>7. ASSUME Open PROVE TargetInv'
  BY <1>7 DEF Open
<1>8. ASSUME AskAgain PROVE TargetInv'
  BY <1>8 DEF AskAgain, Rejected
<1>9. ASSUME GiveUp PROVE TargetInv'
  BY <1>9 DEF GiveUp, Leave, Rejected
<1>10. ASSUME Unreadable PROVE TargetInv'
  BY <1>10 DEF Unreadable, Leave
<1>11. ASSUME Truncate PROVE TargetInv'
  <2>. DEFINE x == [text |-> << >>, mode |-> IF plain[file] = Absent THEN "private" ELSE plain[file].mode]
  <2>1. file \in Files /\ plain' = [plain EXCEPT ![file] = x]
    BY <1>11 DEF Truncate, RunTypes, RunParts
  <2>2. x \in Targets
    BY <2>1, ContainerAssumption DEF Targets, Contents, FileTypes
  <2>. QED
    BY <1>11, <2>1, <2>2, ContainerAssumption DEF Truncate, FileTypes
<1>12. ASSUME StreamRest PROVE TargetInv'
  <2>1. /\ plain' = [plain EXCEPT ![file] = Streamed] /\ Streamed # Absent
        /\ file \in Files /\ file' = file
    BY <1>12, StreamFacts, ContainerAssumption DEF StreamRest
  <2>2. plain'[file] = Streamed
    BY <2>1 DEF FileTypes
  <2>. QED
    BY <2>1, <2>2
<1>13. ASSUME StreamEnd PROVE TargetInv'
  BY <1>13 DEF StreamEnd
<1>14. ASSUME RestoreModes PROVE TargetInv'
  BY <1>14 DEF RestoreModes, Leave
<1>15. ASSUME StreamFails PROVE TargetInv'
  BY <1>15 DEF StreamFails, RemovePartial, Leave
<1>16. ASSUME FlushFails PROVE TargetInv'
  BY <1>16 DEF FlushFails, BufferLost, Leave
<1>17. ASSUME AskToEncrypt PROVE TargetInv'
  BY <1>17 DEF AskToEncrypt, Cached, Typed
<1>18. ASSUME NoInput PROVE TargetInv'
  BY <1>18 DEF NoInput, Leave
<1>19. ASSUME Seal PROVE TargetInv'
  BY <1>19 DEF Seal
<1>20. ASSUME DropWriter PROVE TargetInv'
  BY <1>20 DEF DropWriter, BufferLost
<1>21. ASSUME RenamePart PROVE TargetInv'
  BY <1>21 DEF RenamePart, Leave
<1>22. ASSUME SealFails PROVE TargetInv'
  BY <1>22 DEF SealFails, KeepOld, Leave
<1>23. ASSUME RenameFails PROVE TargetInv'
  BY <1>23 DEF RenameFails, Leave
<1>24. ASSUME Finish PROVE TargetInv'
  BY <1>24 DEF Finish, End
<1>25. ASSUME Crash PROVE TargetInv'
  BY <1>25 DEF Crash, End
<1>26. ASSUME UNCHANGED vars PROVE TargetInv'
  BY <1>26 DEF vars
<1>. QED
  BY StepsAre, <1>1, <1>2, <1>3, <1>4, <1>5, <1>6, <1>7, <1>8, <1>9, <1>10, <1>11,
     <1>12, <1>13, <1>14, <1>15, <1>16, <1>17, <1>18, <1>19, <1>20, <1>21,
     <1>22, <1>23, <1>24, <1>25, <1>26 DEF Acts

(* and of the containers it reads. *)
LEMMA ReadStep ==
  ASSUME ContainerInv, [Next]_vars
  PROVE  ReadInv'
<1>0. ReadInv /\ RunTypes /\ RunParts /\ Absent \notin Files
  BY TypesAre, ContainerAssumption DEF ContainerInv
<1>. USE <1>0 DEF ReadInv, kept
<1>1. ASSUME NEW o \in {"encrypt", "decrypt"}, NEW fs \in SUBSET Files \ {{}}, Start(o, fs)
      PROVE  ReadInv'
  <2>1. op' = o /\ todo' = fs /\ UNCHANGED blob
    BY <1>1 DEF Start
  <2>2. o = "decrypt" => \A f \in fs : blob[f] # Absent
    BY <1>1 DEF Start
  <2>3. file' = Absent
    BY <1>1 DEF Start, RunParts
  <2>. QED
    BY <2>1, <2>2, <2>3
<1>2. ASSUME NEW f \in todo, Take(f) PROVE ReadInv'
  BY <1>2 DEF Take
<1>3. ASSUME NEW f \in Files, Edit(f) PROVE ReadInv'
  BY <1>3 DEF Edit
<1>4. ASSUME NEW f \in Files, Damage(f) PROVE ReadInv'
  BY <1>4 DEF Damage, RunParts
<1>5. ASSUME NoPassword PROVE ReadInv'
  BY <1>5 DEF NoPassword, Leave
<1>6. ASSUME AskToDecrypt PROVE ReadInv'
  BY <1>6 DEF AskToDecrypt, Cached, Typed
<1>7. ASSUME Open PROVE ReadInv'
  BY <1>7 DEF Open
<1>8. ASSUME AskAgain PROVE ReadInv'
  BY <1>8 DEF AskAgain, Rejected
<1>9. ASSUME GiveUp PROVE ReadInv'
  BY <1>9 DEF GiveUp, Leave, Rejected
<1>10. ASSUME Unreadable PROVE ReadInv'
  BY <1>10 DEF Unreadable, Leave
<1>11. ASSUME Truncate PROVE ReadInv'
  BY <1>11 DEF Truncate
<1>12. ASSUME StreamRest PROVE ReadInv'
  BY <1>12 DEF StreamRest
<1>13. ASSUME StreamEnd PROVE ReadInv'
  BY <1>13 DEF StreamEnd
<1>14. ASSUME RestoreModes PROVE ReadInv'
  BY <1>14 DEF RestoreModes, Leave
<1>15. ASSUME StreamFails PROVE ReadInv'
  BY <1>15 DEF StreamFails, RemovePartial, Leave
<1>16. ASSUME FlushFails PROVE ReadInv'
  BY <1>16 DEF FlushFails, BufferLost, Leave
<1>17. ASSUME AskToEncrypt PROVE ReadInv'
  BY <1>17 DEF AskToEncrypt, Cached, Typed
<1>18. ASSUME NoInput PROVE ReadInv'
  BY <1>18 DEF NoInput, Leave
<1>19. ASSUME Seal PROVE ReadInv'
  BY <1>19 DEF Seal
<1>20. ASSUME DropWriter PROVE ReadInv'
  BY <1>20 DEF DropWriter, BufferLost
<1>21. ASSUME RenamePart PROVE ReadInv'
  <2>1. op' = "encrypt"
    BY <1>21 DEF RenamePart, ContainerInv, PhaseInv
  <2>. QED
    BY <2>1
<1>22. ASSUME SealFails PROVE ReadInv'
  BY <1>22 DEF SealFails, KeepOld, Leave
<1>23. ASSUME RenameFails PROVE ReadInv'
  BY <1>23 DEF RenameFails, Leave
<1>24. ASSUME Finish PROVE ReadInv'
  BY <1>24 DEF Finish, End
<1>25. ASSUME Crash PROVE ReadInv'
  BY <1>25 DEF Crash, End
<1>26. ASSUME UNCHANGED vars PROVE ReadInv'
  BY <1>26 DEF vars
<1>. QED
  BY StepsAre, <1>1, <1>2, <1>3, <1>4, <1>5, <1>6, <1>7, <1>8, <1>9, <1>10, <1>11,
     <1>12, <1>13, <1>14, <1>15, <1>16, <1>17, <1>18, <1>19, <1>20, <1>21,
     <1>22, <1>23, <1>24, <1>25, <1>26 DEF Acts

(* Every step keeps what is known of the password.                         *)
LEMMA PasswordStep ==
  ASSUME ContainerInv, [Next]_vars
  PROVE  PasswordInv'
<1>0. PasswordInv /\ RunTypes
  BY TypesAre DEF ContainerInv
<1>. USE <1>0 DEF PasswordInv, RunTypes, kept
<1>1. ASSUME NEW o \in {"encrypt", "decrypt"}, NEW fs \in SUBSET Files \ {{}}, Start(o, fs)
      PROVE  PasswordInv'
  BY <1>1 DEF Start
<1>2. ASSUME NEW f \in todo, Take(f) PROVE PasswordInv'
  BY <1>2 DEF Take
<1>3. ASSUME NEW f \in Files, Edit(f) PROVE PasswordInv'
  BY <1>3 DEF Edit
<1>4. ASSUME NEW f \in Files, Damage(f) PROVE PasswordInv'
  BY <1>4 DEF Damage
<1>5. ASSUME NoPassword PROVE PasswordInv'
  BY <1>5 DEF NoPassword, Leave
<1>6. ASSUME AskToDecrypt PROVE PasswordInv'
  BY <1>6 DEF AskToDecrypt, Cached, Typed
<1>7. ASSUME Open PROVE PasswordInv'
  BY <1>7 DEF Open
<1>8. ASSUME AskAgain PROVE PasswordInv'
  BY <1>8 DEF AskAgain, Rejected
<1>9. ASSUME GiveUp PROVE PasswordInv'
  BY <1>9 DEF GiveUp, Leave, Rejected
<1>10. ASSUME Unreadable PROVE PasswordInv'
  BY <1>10 DEF Unreadable, Leave
<1>11. ASSUME Truncate PROVE PasswordInv'
  BY <1>11 DEF Truncate
<1>12. ASSUME StreamRest PROVE PasswordInv'
  BY <1>12 DEF StreamRest
<1>13. ASSUME StreamEnd PROVE PasswordInv'
  BY <1>13 DEF StreamEnd
<1>14. ASSUME RestoreModes PROVE PasswordInv'
  BY <1>14 DEF RestoreModes, Leave
<1>15. ASSUME StreamFails PROVE PasswordInv'
  BY <1>15 DEF StreamFails, RemovePartial, Leave
<1>16. ASSUME FlushFails PROVE PasswordInv'
  BY <1>16 DEF FlushFails, BufferLost, Leave
<1>17. ASSUME AskToEncrypt PROVE PasswordInv'
  BY <1>17 DEF AskToEncrypt, Cached, Typed
<1>18. ASSUME NoInput PROVE PasswordInv'
  BY <1>18 DEF NoInput, Leave
<1>19. ASSUME Seal PROVE PasswordInv'
  BY <1>19 DEF Seal
<1>20. ASSUME DropWriter PROVE PasswordInv'
  BY <1>20 DEF DropWriter, BufferLost
<1>21. ASSUME RenamePart PROVE PasswordInv'
  BY <1>21 DEF RenamePart, Leave
<1>22. ASSUME SealFails PROVE PasswordInv'
  BY <1>22 DEF SealFails, KeepOld, Leave
<1>23. ASSUME RenameFails PROVE PasswordInv'
  BY <1>23 DEF RenameFails, Leave
<1>24. ASSUME Finish PROVE PasswordInv'
  BY <1>24 DEF Finish, End
<1>25. ASSUME Crash PROVE PasswordInv'
  BY <1>25 DEF Crash, End
<1>26. ASSUME UNCHANGED vars PROVE PasswordInv'
  BY <1>26 DEF vars
<1>. QED
  BY StepsAre, <1>1, <1>2, <1>3, <1>4, <1>5, <1>6, <1>7, <1>8, <1>9, <1>10, <1>11,
     <1>12, <1>13, <1>14, <1>15, <1>16, <1>17, <1>18, <1>19, <1>20, <1>21,
     <1>22, <1>23, <1>24, <1>25, <1>26 DEF Acts

(* The piece of the file the next chunk holds                              *)
Block == IF head.len = 0 THEN Absent ELSE plain[file].text[at + 1]

(* A container is given one chunk more, for its next place; the chunk      *)
(* holds nothing only if the file is empty.                                *)
LEMMA SealFacts ==
  ASSUME ContainerInv, Seal
  PROVE  /\ file \in Files /\ head \in Headers /\ part[file] \in Blobs
         /\ at \in Nat /\ at + 1 \in 1..ChunksOf(head) /\ ChunksOf(head) \in 1..MaxChunks
         /\ Block \in Blocks \cup {Absent} /\ (Block = Absent <=> head.len = 0)
         /\ made' = made \cup {Sealed(head, at + 1, Block)}
         /\ part' = [part EXCEPT ![file] =
                       [part[file] EXCEPT !.chunks = Append(@, Sealed(head, at + 1, Block))]]
<1>0. FileTypes /\ RunTypes /\ RunParts
  BY TypesAre DEF ContainerInv
<1>1. file \in Files /\ head \in Headers /\ part[file] \in Blobs
  BY <1>0 DEF Seal, RunTypes, RunParts, FileTypes, ContainerInv, PhaseInv
<1>2. at \in Nat /\ at + 1 \in 1..ChunksOf(head) /\ ChunksOf(head) \in 1..MaxChunks
  BY <1>0, <1>1, HeaderFacts, ContainerAssumption DEF Seal, RunTypes, ContainerInv, PhaseInv
<1>3. plain[file] \in Targets
  BY <1>0, <1>1 DEF FileTypes, Seal, ContainerInv, TargetInv
<1>4. Block \in Blocks \cup {Absent} /\ (Block = Absent <=> head.len = 0)
  BY <1>2, <1>3, ContainerAssumption DEF Block, Seal, Short, Targets, Contents
<1>. QED
  BY <1>1, <1>2, <1>4 DEF Seal, Block

(* Every step keeps what is known of the chunks that were made. *)
LEMMA MadeStep ==
  ASSUME ContainerInv, [Next]_vars
  PROVE  MadeInv'
<1>1. CASE UNCHANGED made
  BY <1>1 DEF ContainerInv, MadeInv
<1>2. CASE Seal
  <2>. DEFINE c == Sealed(head, at + 1, Block)
  <2>1. at + 1 \in 1..MaxChunks /\ at + 1 <= ChunksOf(head)
    BY <1>2, SealFacts, ContainerAssumption
  <2>2. c.header = head /\ c.index = at + 1 /\ c.block = Block
    BY <1>2, <2>1, SealFacts, SealedFacts
  <2>3. /\ c.index <= ChunksOf(c.header) /\ c = Sealed(c.header, c.index, c.block)
        /\ c.block = Absent <=> c.header.len = 0
    BY <1>2, <2>1, <2>2, SealFacts
  <2>4. made' = made \cup {c}
    BY <1>2, SealFacts
  <2>. HIDE DEF c
  <2>. QED
    BY <2>3, <2>4 DEF ContainerInv, MadeInv
<1>. QED
  BY Untouched, <1>1, <1>2

(* A container stays made of what was sealed as more is sealed.            *)
LEMMA StoreStep ==
  ASSUME ContainerInv, [Next]_vars
  PROVE  StoreInv'
<1>. DEFINE Of(b, m) == b \in Blobs /\ \A i \in 1..Len(b.chunks) : b.chunks[i] \in m \cup {Garbage}
            Good(b, m) == b = Absent \/ Of(b, m)
<1>0. FileTypes /\ RunTypes /\ RunParts /\ FileTypes' /\ Absent \notin Files /\ Absent \notin Blobs
  BY TypesAre, FileTypesStep, ContainerAssumption DEF ContainerInv
<1>1. made \subseteq made'
  BY Untouched, SealFacts
<1>2. ASSUME NEW b, Good(b, made) PROVE Good(b, made')
  BY <1>1, <1>2
<1>3. \A f \in Files : Good(blob[f], made) /\ Good(part[f], made)
  BY <1>0 DEF ContainerInv, StoreInv, FileTypes, Holds
<1>4. ASSUME NEW f \in Files PROVE Good(blob'[f], made)
  <2>1. CASE UNCHANGED blob
    BY <1>3, <2>1
  <2>2. ASSUME NEW g \in Files, Damage(g) PROVE Good(blob'[f], made)
    <3>1. PICK d \in Damages(blob[g]) : blob' = [blob EXCEPT ![g] = d]
      BY <2>2 DEF Damage
    <3>2. Good(blob[g], made) /\ blob[g] # Absent /\ made \subseteq Chunks
      BY <1>0, <1>3, <2>2 DEF Damage, FileTypes
    <3>3. Good(d, made)
      BY <3>2, DamagedBlob DEF Holds
    <3>. QED
      BY <1>0, <1>3, <3>1, <3>3 DEF FileTypes
  <2>3. CASE RenamePart
    BY <1>0, <1>3, <2>3 DEF RenamePart, FileTypes
  <2>. QED
    BY Untouched, <2>1, <2>2, <2>3
<1>5. ASSUME NEW f \in Files PROVE Good(part'[f], made) \/ Seal
  <2>1. CASE UNCHANGED part
    BY <1>3, <2>1
  <2>2. CASE AskToEncrypt
    <3>1. [header |-> head', chunks |-> << >>] \in Blobs
      BY <2>2, NewHeader DEF Blobs
    <3>2. Good([header |-> head', chunks |-> << >>], made)
      BY <3>1
    <3>3. part' = [part EXCEPT ![file] = [header |-> head', chunks |-> << >>]]
      BY <2>2 DEF AskToEncrypt
    <3>. QED
      BY <1>0, <1>3, <3>2, <3>3 DEF FileTypes
  <2>3. CASE RenamePart \/ SealFails
    <3>1. part' = [part EXCEPT ![file] = Absent]
      BY <2>3 DEF RenamePart, SealFails
    <3>. QED
      BY <1>0, <1>3, <3>1 DEF FileTypes
  <2>4. CASE DropWriter
    <3>1. file \in Files /\ part[file] # Absent /\ Len(part[file].chunks) # 0
      BY <1>0, <2>4, HeaderFacts
         DEF DropWriter, ContainerInv, PhaseInv, WritingInv, InOrder, FileTypes, RunTypes, RunParts
    <3>2. ASSUME NEW b \in Unwritten(part[file]) PROVE Good(b, made)
      <4>1. Of(part[file], made)
        BY <1>3, <3>1
      <4>2. b \in Blobs
        BY <3>1, <4>1, BlobTypes
      <4>3. b.chunks = SubSeq(part[file].chunks, 1, Len(part[file].chunks) - 1)
        BY DEF Unwritten
      <4>. QED
        BY <3>1, <4>1, <4>2, <4>3 DEF Blobs
    <3>. QED
      BY <1>0, <1>3, <2>4, <3>1, <3>2 DEF DropWriter, FileTypes
  <2>. QED
    BY Untouched, <2>1, <2>2, <2>3, <2>4
<1>6. ASSUME Seal, NEW f \in Files PROVE Good(part'[f], made')
  <2>. DEFINE c == Sealed(head, at + 1, Block)
  <2>1. /\ file \in Files /\ part[file] \in Blobs /\ made' = made \cup {c}
        /\ part' = [part EXCEPT ![file] = [part[file] EXCEPT !.chunks = Append(@, c)]]
    BY <1>6, SealFacts
  <2>2. c \in Chunks
    BY <1>0, <2>1 DEF FileTypes
  <2>. HIDE DEF c
  <2>3. Of(part[file], made)
    BY <1>0, <1>3, <2>1
  <2>4. Good([part[file] EXCEPT !.chunks = Append(@, c)], made')
    <3>1. [part[file] EXCEPT !.chunks = Append(@, c)] \in Blobs
      BY <2>1, <2>2, BlobTypes
    <3>. QED
      BY <2>1, <2>3, <3>1 DEF Blobs
  <2>5. part'[f] = IF f = file THEN [part[file] EXCEPT !.chunks = Append(@, c)] ELSE part[f]
    BY <1>0, <2>1 DEF FileTypes
  <2>. QED
    BY <1>2, <1>3, <2>4, <2>5
<1>7. ASSUME NEW f \in Files PROVE Good(blob'[f], made') /\ Good(part'[f], made')
  BY <1>2, <1>4, <1>5, <1>6
<1>. QED
  BY <1>0, <1>7 DEF StoreInv, Holds

(* What is being written stays in order. *)
LEMMA WritingStep ==
  ASSUME ContainerInv, [Next]_vars
  PROVE  WritingInv'
<1>0. WritingInv /\ FileTypes /\ RunTypes /\ RunParts /\ FileTypes'
  BY TypesAre, FileTypesStep DEF ContainerInv
<1>. USE <1>0 DEF WritingInv, kept, InOrder, Sound
<1>1. ASSUME NEW o \in {"encrypt", "decrypt"}, NEW fs \in SUBSET Files \ {{}}, Start(o, fs)
      PROVE  WritingInv'
  BY <1>1 DEF Start
<1>2. ASSUME NEW f \in todo, Take(f) PROVE WritingInv'
  BY <1>2 DEF Take
<1>3. ASSUME NEW f \in Files, Edit(f) PROVE WritingInv'
  BY <1>3 DEF Edit
<1>4. ASSUME NEW f \in Files, Damage(f) PROVE WritingInv'
  BY <1>4 DEF Damage
<1>5. ASSUME NoPassword PROVE WritingInv'
  BY <1>5 DEF NoPassword, Leave
<1>6. ASSUME AskToDecrypt PROVE WritingInv'
  BY <1>6 DEF AskToDecrypt, Cached, Typed
<1>7. ASSUME Open PROVE WritingInv'
  BY <1>7 DEF Open
<1>8. ASSUME AskAgain PROVE WritingInv'
  BY <1>8 DEF AskAgain, Rejected
<1>9. ASSUME GiveUp PROVE WritingInv'
  BY <1>9 DEF GiveUp, Leave, Rejected
<1>10. ASSUME Unreadable PROVE WritingInv'
  BY <1>10 DEF Unreadable, Leave
<1>11. ASSUME Truncate PROVE WritingInv'
  BY <1>11 DEF Truncate
<1>12. ASSUME StreamRest PROVE WritingInv'
  BY <1>12 DEF StreamRest
<1>13. ASSUME StreamEnd PROVE WritingInv'
  BY <1>13 DEF StreamEnd
<1>14. ASSUME RestoreModes PROVE WritingInv'
  BY <1>14 DEF RestoreModes, Leave
<1>15. ASSUME StreamFails PROVE WritingInv'
  BY <1>15 DEF StreamFails, RemovePartial, Leave
<1>16. ASSUME FlushFails PROVE WritingInv'
  BY <1>16 DEF FlushFails, BufferLost, Leave
<1>17. ASSUME AskToEncrypt PROVE WritingInv'
  <2>1. part' = [part EXCEPT ![file] = [header |-> head', chunks |-> << >>]]
    BY <1>17 DEF AskToEncrypt
  <2>2. file \in Files /\ pc' = "seal" /\ file' = file /\ at' = 0
    BY <1>17 DEF AskToEncrypt, Cached, Typed, RunTypes, RunParts, ContainerInv, PhaseInv
  <2>. QED
    BY <2>1, <2>2 DEF FileTypes
<1>18. ASSUME NoInput PROVE WritingInv'
  BY <1>18 DEF NoInput, Leave
<1>19. ASSUME Seal PROVE WritingInv'
  <2>. DEFINE c == Sealed(head, at + 1, Block)
              b == [part[file] EXCEPT !.chunks = Append(@, c)]
  <2>1. /\ part' = [part EXCEPT ![file] = b] /\ file' = file /\ head' = head /\ at' = at + 1
        /\ pc' \in {"seal", "close"} /\ InOrder(part[file], head, at)
    BY <1>19, SealFacts DEF Seal
  <2>2. /\ file \in Files /\ part[file] \in Blobs /\ at \in Nat
        /\ \E x \in Blocks \cup {Absent} : c = Sealed(head, at + 1, x)
    BY <1>19, SealFacts
  <2>. HIDE DEF c
  <2>3. InOrder(b, head, at + 1)
    BY <2>1, <2>2 DEF Blobs
  <2>4. part'[file] = b
    BY <2>1, <2>2 DEF FileTypes
  <2>. QED
    BY <2>1, <2>3, <2>4
<1>20. ASSUME DropWriter PROVE WritingInv'
  <2>1. head \in Headers /\ at = ChunksOf(head) /\ file' = file /\ pc' = "rename"
        /\ InOrder(part[file], head, at)
    BY <1>20 DEF DropWriter, ContainerInv, PhaseInv
  <2>2. Sound(part[file])
    BY <2>1
  <2>3. (cut' = cut /\ part' = part) \/ file \in cut'
    BY <1>20 DEF DropWriter, BufferLost, RunTypes, RunParts
  <2>. QED
    BY <2>1, <2>2, <2>3
<1>21. ASSUME RenamePart PROVE WritingInv'
  BY <1>21 DEF RenamePart, Leave
<1>22. ASSUME SealFails PROVE WritingInv'
  BY <1>22 DEF SealFails, KeepOld, Leave
<1>23. ASSUME RenameFails PROVE WritingInv'
  BY <1>23 DEF RenameFails, Leave
<1>24. ASSUME Finish PROVE WritingInv'
  BY <1>24 DEF Finish, End
<1>25. ASSUME Crash PROVE WritingInv'
  BY <1>25 DEF Crash, End
<1>26. ASSUME UNCHANGED vars PROVE WritingInv'
  BY <1>26 DEF vars
<1>. QED
  BY StepsAre, <1>1, <1>2, <1>3, <1>4, <1>5, <1>6, <1>7, <1>8, <1>9, <1>10, <1>11,
     <1>12, <1>13, <1>14, <1>15, <1>16, <1>17, <1>18, <1>19, <1>20, <1>21,
     <1>22, <1>23, <1>24, <1>25, <1>26 DEF Acts

(* A container that no fault of storage reached is sound. *)
LEMMA WholeStep ==
  ASSUME ContainerInv, [Next]_vars
  PROVE  WholeInv'
<1>0. WholeInv /\ FileTypes /\ RunTypes /\ RunParts
  BY TypesAre DEF ContainerInv
<1>1. cut \subseteq cut'
  BY Untouched DEF FlushFails, DropWriter, BufferLost
<1>2. ASSUME NEW f \in Files, Damage(f) PROVE WholeInv'
  BY <1>0, <1>2 DEF Damage, WholeInv, FileTypes, Sound, InOrder
<1>3. CASE RenamePart
  <2>1. /\ file \in Files /\ cut' = cut /\ blob' = [blob EXCEPT ![file] = part[file]]
        /\ damaged' = damaged \ {file} /\ (file \notin cut => Sound(part[file]))
    BY <1>0, <1>3 DEF RenamePart, RunTypes, RunParts, ContainerInv, WritingInv
  <2>. QED
    BY <1>0, <2>1 DEF WholeInv, FileTypes, Sound, InOrder
<1>4. CASE UNCHANGED blob /\ UNCHANGED damaged
  BY <1>0, <1>1, <1>4 DEF WholeInv, Sound, InOrder
<1>. QED
  BY Untouched, <1>2, <1>3, <1>4

(* What has been streamed is what was sealed. *)
LEMMA StreamStep ==
  ASSUME ContainerInv, [Next]_vars
  PROVE  StreamInv'
<1>0. /\ StreamInv /\ FileTypes /\ RunTypes /\ RunParts
      /\ EditPhases \subseteq {"idle", "next", "seal", "close", "rename"}
  BY TypesAre, ContainerAssumption DEF ContainerInv
<1>. USE <1>0 DEF StreamInv, kept
<1>1. ASSUME NEW o \in {"encrypt", "decrypt"}, NEW fs \in SUBSET Files \ {{}}, Start(o, fs)
      PROVE  StreamInv'
  BY <1>1 DEF Start
<1>2. ASSUME NEW f \in todo, Take(f) PROVE StreamInv'
  BY <1>2 DEF Take
<1>3. ASSUME NEW f \in Files, Edit(f) PROVE StreamInv'
  BY <1>3 DEF Edit
<1>4. ASSUME NEW f \in Files, Damage(f) PROVE StreamInv'
  BY <1>4 DEF Damage
<1>5. ASSUME NoPassword PROVE StreamInv'
  BY <1>5 DEF NoPassword, Leave
<1>6. ASSUME AskToDecrypt PROVE StreamInv'
  BY <1>6 DEF AskToDecrypt, Cached, Typed
<1>7. ASSUME Open PROVE StreamInv'
  BY <1>7 DEF Open
<1>8. ASSUME AskAgain PROVE StreamInv'
  BY <1>8 DEF AskAgain, Rejected
<1>9. ASSUME GiveUp PROVE StreamInv'
  BY <1>9 DEF GiveUp, Leave, Rejected
<1>10. ASSUME Unreadable PROVE StreamInv'
  BY <1>10 DEF Unreadable, Leave
<1>11. ASSUME Truncate PROVE StreamInv'
  <2>1. /\ file \in Files /\ head \in Headers /\ at = 0
        /\ UNCHANGED <<file, head, at, made>>
    BY <1>11 DEF Truncate, RunTypes, RunParts, ContainerInv, PhaseInv
  <2>2. plain'[file].text = << >>
    BY <1>11, <2>1 DEF Truncate, FileTypes
  <2>. QED
    BY <2>1, <2>2
<1>12. ASSUME StreamRest PROVE StreamInv'
  <2>. DEFINE t == plain[file].text
              u == plain'[file].text
              c == NextChunk
  <2>1. /\ file \in Files /\ head \in Headers /\ at \in Nat /\ at < ChunksOf(head)
        /\ c \in made /\ c \in Chunks /\ c.header = head /\ c.index = at + 1
        /\ plain' = [plain EXCEPT ![file] = Streamed]
    BY <1>12, StreamFacts
  <2>2. /\ at' = at + 1 /\ UNCHANGED <<pc, file, head, made>> /\ pc = "opened"
        /\ plain[file] \in Targets
    BY <1>12, <2>1 DEF StreamRest, FileTypes, ContainerInv, TargetInv
  <2>3. /\ c = Sealed(head, at + 1, c.block) /\ c.block \in Blocks \cup {Absent}
        /\ c.block = Absent <=> head.len = 0
    BY <2>1 DEF ContainerInv, MadeInv, Chunks
  <2>4. /\ t \in Seq(Blocks) /\ Len(t) = (IF head.len = 0 THEN 0 ELSE at)
        /\ \A i \in 1..at : Sealed(head, i, BlockAt(t, i)) \in made
    BY <2>2 DEF Targets, Contents
  <2>5. plain'[file] = Streamed
    BY <2>1 DEF FileTypes
  <2>6. u = IF c.block = Absent THEN t ELSE Append(t, c.block)
    BY <2>2, <2>5 DEF Streamed, Targets
  <2>. HIDE DEF t, u, c
  <2>7. CASE head.len = 0
    <3>1. u = t /\ at = 0 /\ c.block = Absent /\ Len(t) = 0
      BY <2>1, <2>3, <2>4, <2>6, <2>7 DEF ChunksOf
    <3>2. BlockAt(u, 1) = Absent
      BY <2>4, <3>1 DEF BlockAt
    <3>. QED
      BY <2>1, <2>2, <2>3, <2>7, <3>1, <3>2 DEF u
  <2>8. CASE head.len # 0
    <3>1. u = Append(t, c.block) /\ c.block \in Blocks /\ Len(t) = at
      BY <2>3, <2>4, <2>6, <2>8
    <3>2. Len(u) = at + 1 /\ BlockAt(u, at + 1) = c.block
      BY <2>1, <2>4, <3>1 DEF BlockAt
    <3>3. \A i \in 1..at : BlockAt(u, i) = BlockAt(t, i)
      BY <2>1, <2>4, <3>1 DEF BlockAt
    <3>4. \A i \in 1..(at + 1) : Sealed(head, i, BlockAt(u, i)) \in made
      <4>. SUFFICES ASSUME NEW i \in 1..(at + 1) PROVE Sealed(head, i, BlockAt(u, i)) \in made
        OBVIOUS
      <4>1. CASE i = at + 1
        BY <2>1, <2>3, <3>2, <4>1
      <4>2. CASE i \in 1..at
        BY <2>4, <3>3, <4>2
      <4>. QED
        BY <2>1, <4>1, <4>2
    <3>. QED
      BY <2>1, <2>2, <2>8, <3>2, <3>4 DEF u
  <2>. QED
    BY <2>7, <2>8
<1>13. ASSUME StreamEnd PROVE StreamInv'
  BY <1>13 DEF StreamEnd
<1>14. ASSUME RestoreModes PROVE StreamInv'
  BY <1>14 DEF RestoreModes, Leave
<1>15. ASSUME StreamFails PROVE StreamInv'
  BY <1>15 DEF StreamFails, RemovePartial, Leave
<1>16. ASSUME FlushFails PROVE StreamInv'
  BY <1>16 DEF FlushFails, BufferLost, Leave
<1>17. ASSUME AskToEncrypt PROVE StreamInv'
  BY <1>17 DEF AskToEncrypt, Cached, Typed
<1>18. ASSUME NoInput PROVE StreamInv'
  BY <1>18 DEF NoInput, Leave
<1>19. ASSUME Seal PROVE StreamInv'
  BY <1>19 DEF Seal
<1>20. ASSUME DropWriter PROVE StreamInv'
  BY <1>20 DEF DropWriter, BufferLost
<1>21. ASSUME RenamePart PROVE StreamInv'
  BY <1>21 DEF RenamePart, Leave
<1>22. ASSUME SealFails PROVE StreamInv'
  BY <1>22 DEF SealFails, KeepOld, Leave
<1>23. ASSUME RenameFails PROVE StreamInv'
  BY <1>23 DEF RenameFails, Leave
<1>24. ASSUME Finish PROVE StreamInv'
  BY <1>24 DEF Finish, End
<1>25. ASSUME Crash PROVE StreamInv'
  BY <1>25 DEF Crash, End
<1>26. ASSUME UNCHANGED vars PROVE StreamInv'
  BY <1>26 DEF vars
<1>. QED
  BY StepsAre, <1>1, <1>2, <1>3, <1>4, <1>5, <1>6, <1>7, <1>8, <1>9, <1>10, <1>11,
     <1>12, <1>13, <1>14, <1>15, <1>16, <1>17, <1>18, <1>19, <1>20, <1>21,
     <1>22, <1>23, <1>24, <1>25, <1>26 DEF Acts

(* Until it is truncated a target is as it was. *)
LEMMA PriorStep ==
  ASSUME ContainerInv, [Next]_vars
  PROVE  PriorInv'
<1>0. /\ PriorInv /\ RunTypes /\ RunParts
      /\ EditPhases \subseteq {"idle", "next", "seal", "close", "rename"}
  BY TypesAre, ContainerAssumption DEF ContainerInv
<1>. USE <1>0 DEF PriorInv, kept
<1>1. ASSUME NEW o \in {"encrypt", "decrypt"}, NEW fs \in SUBSET Files \ {{}}, Start(o, fs)
      PROVE  PriorInv'
  BY <1>1 DEF Start
<1>2. ASSUME NEW f \in todo, Take(f) PROVE PriorInv'
  BY <1>2 DEF Take
<1>3. ASSUME NEW f \in Files, Edit(f) PROVE PriorInv'
  BY <1>3 DEF Edit
<1>4. ASSUME NEW f \in Files, Damage(f) PROVE PriorInv'
  BY <1>4 DEF Damage
<1>5. ASSUME NoPassword PROVE PriorInv'
  BY <1>5 DEF NoPassword, Leave
<1>6. ASSUME AskToDecrypt PROVE PriorInv'
  BY <1>6 DEF AskToDecrypt, Cached, Typed
<1>7. ASSUME Open PROVE PriorInv'
  BY <1>7 DEF Open
<1>8. ASSUME AskAgain PROVE PriorInv'
  BY <1>8 DEF AskAgain, Rejected
<1>9. ASSUME GiveUp PROVE PriorInv'
  BY <1>9 DEF GiveUp, Leave, Rejected
<1>10. ASSUME Unreadable PROVE PriorInv'
  BY <1>10 DEF Unreadable, Leave
<1>11. ASSUME Truncate PROVE PriorInv'
  BY <1>11 DEF Truncate
<1>12. ASSUME StreamRest PROVE PriorInv'
  BY <1>12 DEF StreamRest
<1>13. ASSUME StreamEnd PROVE PriorInv'
  BY <1>13 DEF StreamEnd
<1>14. ASSUME RestoreModes PROVE PriorInv'
  BY <1>14 DEF RestoreModes, Leave
<1>15. ASSUME StreamFails PROVE PriorInv'
  BY <1>15 DEF StreamFails, RemovePartial, Leave
<1>16. ASSUME FlushFails PROVE PriorInv'
  BY <1>16 DEF FlushFails, BufferLost, Leave
<1>17. ASSUME AskToEncrypt PROVE PriorInv'
  BY <1>17 DEF AskToEncrypt, Cached, Typed
<1>18. ASSUME NoInput PROVE PriorInv'
  BY <1>18 DEF NoInput, Leave
<1>19. ASSUME Seal PROVE PriorInv'
  BY <1>19 DEF Seal
<1>20. ASSUME DropWriter PROVE PriorInv'
  BY <1>20 DEF DropWriter, BufferLost
<1>21. ASSUME RenamePart PROVE PriorInv'
  BY <1>21 DEF RenamePart, Leave
<1>22. ASSUME SealFails PROVE PriorInv'
  BY <1>22 DEF SealFails, KeepOld, Leave
<1>23. ASSUME RenameFails PROVE PriorInv'
  BY <1>23 DEF RenameFails, Leave
<1>24. ASSUME Finish PROVE PriorInv'
  BY <1>24 DEF Finish, End
<1>25. ASSUME Crash PROVE PriorInv'
  BY <1>25 DEF Crash, End
<1>26. ASSUME UNCHANGED vars PROVE PriorInv'
  BY <1>26 DEF vars
<1>. QED
  BY StepsAre, <1>1, <1>2, <1>3, <1>4, <1>5, <1>6, <1>7, <1>8, <1>9, <1>10, <1>11,
     <1>12, <1>13, <1>14, <1>15, <1>16, <1>17, <1>18, <1>19, <1>20, <1>21,
     <1>22, <1>23, <1>24, <1>25, <1>26 DEF Acts

-----------------------------------------------------------------------------
(* The theorems *)

(* The parts of the invariant hold to begin with, and every step keeps     *)
(* them.                                                                   *)
LEMMA InitInv == Init => ContainerInv
<1>. SUFFICES ASSUME Init PROVE ContainerInv
  OBVIOUS
<1>1. plain \in [Files -> Targets]
  <2>1. [text : InitialTexts, mode : {"recorded"}] \subseteq Targets
    BY ContainerAssumption DEF Targets
  <2>. QED
    BY <2>1 DEF Init
<1>2. FileTypes /\ RunTypes /\ RunParts
  <2>1. FileTypes
    BY <1>1 DEF Init, FileTypes
  <2>2. RunTypes
    <3>1. MaxChunks \in Nat /\ MaxSeals \in Nat /\ MaxEvents \in Nat
      BY ContainerAssumption
    <3>2. /\ cache = Absent /\ op = "none" /\ todo = {} /\ file = Absent /\ pc = "idle"
          /\ head = Absent /\ at = 0 /\ retried = FALSE /\ events = 0 /\ seals = 0
      BY DEF Init
    <3>3. 0 \in 0..MaxChunks /\ 0 \in 0..MaxSeals /\ 0 \in 0..MaxEvents
      BY <3>1
    <3>4. at \in 0..MaxChunks /\ events \in 0..MaxEvents /\ seals \in 0..MaxSeals
      BY <3>2, <3>3, Zenon
    <3>5. retried \in BOOLEAN /\ pc \in Phases /\ op \in {"none", "encrypt", "decrypt"}
      BY <3>2 DEF Phases
    <3>. QED
      BY <3>2, <3>4, <3>5, Zenon DEF RunTypes
  <2>3. RunParts
    BY DEF Init, RunParts
  <2>. QED
    BY <2>1, <2>2, <2>3
<1>3. PhaseInv /\ TargetInv /\ ReadInv /\ PasswordInv /\ MadeInv
  BY DEF Init, PhaseInv, TargetInv, ReadInv, PasswordInv, MadeInv
<1>4. StoreInv /\ WholeInv /\ WritingInv /\ StreamInv /\ PriorInv
  BY DEF Init, StoreInv, WholeInv, WritingInv, StreamInv, PriorInv
<1>. QED
  BY <1>2, <1>3, <1>4, TypesAre DEF ContainerInv

(* So the invariant holds of every behaviour.                              *)
LEMMA InvHolds == Spec => []ContainerInv
<1>1. ContainerInv /\ [Next]_vars => ContainerInv'
  <2>. SUFFICES ASSUME ContainerInv, [Next]_vars PROVE ContainerInv'
    OBVIOUS
  <2>1. ContainerTypeOK' /\ PhaseInv' /\ TargetInv' /\ ReadInv'
    BY TypeStep, PhaseStep, TargetStep, ReadStep
  <2>2. PasswordInv' /\ MadeInv' /\ StoreInv'
    BY PasswordStep, MadeStep, StoreStep
  <2>3. WholeInv' /\ WritingInv' /\ StreamInv' /\ PriorInv'
    BY WholeStep, WritingStep, StreamStep, PriorStep
  <2>. QED
    BY <2>1, <2>2, <2>3 DEF ContainerInv
<1>. QED
  BY InitInv, <1>1, PTL DEF Spec

(* Every variable keeps its type, and a run's file, phase and .part hang   *)
(* together, whatever the provider, the user and the storage do.           *)
THEOREM TypeCorrect == Spec => []ContainerTypeOK
<1>1. ContainerInv => ContainerTypeOK
  BY DEF ContainerInv
<1>. QED
  BY <1>1, InvHolds, PTL

(* What decryption accepts is one encryption's plaintext, whole and in     *)
(* order, whatever the storage made of the container (DecryptSession).     *)
THEOREM DecryptsTheWhole == Spec => []OpenedIsWhole
<1>1. ContainerInv => OpenedIsWhole
  <2>. SUFFICES ASSUME ContainerInv, pc = "modes" PROVE OpenedIsWhole
    BY DEF OpenedIsWhole
  <2>1. head \in Headers /\ at = ChunksOf(head)
    BY DEF ContainerInv, PhaseInv
  <2>2. Len(plain[file].text) = head.len
    BY <2>1, HeaderFacts DEF ContainerInv, StreamInv, ChunksOf
  <2>. QED
    BY <2>1, <2>2 DEF OpenedIsWhole, ContainerInv, StreamInv
<1>. QED
  BY <1>1, InvHolds, PTL

(* An encryption replaces a container only by a complete one, through      *)
(* every error that is reported and every crash (encrypt_to_new_file).     *)
THEOREM ReplacesByTheWhole == Spec => []ContainerWhole
<1>1. ContainerInv => ContainerWhole
  BY ContainerAssumption DEF ContainerInv, ContainerWhole, WholeInv, Sound, InOrder, Whole
<1>. QED
  BY <1>1, InvHolds, PTL

(* What FailedDecryptLeavesNothing says of a step *)
LeavesTarget == op = "decrypt" /\ pc # "next" /\ pc' = "next" =>
                   \/ plain'[file] = prior
                   \/ plain'[file] = Absent /\ pc \in {"opened", "modes"}
                   \/ pc = "modes" /\ plain'[file].mode = "recorded"
                   \/ file \in cut'
(* No step of a decryption leaves a part of a plaintext. *)
LEMMA LeavesTargetStep ==
  ASSUME ContainerInv, [Next]_vars
  PROVE  LeavesTarget
<1>0. /\ PriorInv /\ PhaseInv /\ RunTypes /\ RunParts
      /\ plain \in [Files -> Targets \cup {Absent}]
      /\ TargetInv
  BY TypesAre DEF ContainerInv, FileTypes
<1>. USE <1>0 DEF LeavesTarget, PriorInv, PhaseInv, RunParts, kept
<1>1. ASSUME NEW o \in {"encrypt", "decrypt"}, NEW fs \in SUBSET Files \ {{}}, Start(o, fs)
      PROVE  LeavesTarget
  BY <1>1 DEF Start
<1>2. ASSUME NEW f \in todo, Take(f) PROVE LeavesTarget
  BY <1>2 DEF Take
<1>3. ASSUME NEW f \in Files, Edit(f) PROVE LeavesTarget
  BY <1>3 DEF Edit
<1>4. ASSUME NEW f \in Files, Damage(f) PROVE LeavesTarget
  BY <1>4 DEF Damage
<1>5. ASSUME NoPassword PROVE LeavesTarget
  BY <1>5 DEF NoPassword, Leave
<1>6. ASSUME AskToDecrypt PROVE LeavesTarget
  BY <1>6 DEF AskToDecrypt, Cached, Typed
<1>7. ASSUME Open PROVE LeavesTarget
  BY <1>7 DEF Open
<1>8. ASSUME AskAgain PROVE LeavesTarget
  BY <1>8 DEF AskAgain, Rejected
<1>9. ASSUME GiveUp PROVE LeavesTarget
  BY <1>9 DEF GiveUp, Leave, Rejected
<1>10. ASSUME Unreadable PROVE LeavesTarget
  BY <1>10 DEF Unreadable, Leave
<1>11. ASSUME Truncate PROVE LeavesTarget
  BY <1>11 DEF Truncate
<1>12. ASSUME StreamRest PROVE LeavesTarget
  BY <1>12 DEF StreamRest
<1>13. ASSUME StreamEnd PROVE LeavesTarget
  BY <1>13 DEF StreamEnd
<1>14. ASSUME RestoreModes PROVE LeavesTarget
  <2>1. file \in Files /\ plain[file] \in Targets
    BY <1>14 DEF RestoreModes, RunTypes, TargetInv
  <2>. QED
    BY <1>14, <2>1 DEF RestoreModes, Targets
<1>15. ASSUME StreamFails PROVE LeavesTarget
  BY <1>15 DEF StreamFails, RemovePartial, RunTypes
<1>16. ASSUME FlushFails PROVE LeavesTarget
  BY <1>16 DEF FlushFails, BufferLost, Leave
<1>17. ASSUME AskToEncrypt PROVE LeavesTarget
  BY <1>17 DEF AskToEncrypt, Cached, Typed
<1>18. ASSUME NoInput PROVE LeavesTarget
  BY <1>18 DEF NoInput, Leave
<1>19. ASSUME Seal PROVE LeavesTarget
  BY <1>19 DEF Seal
<1>20. ASSUME DropWriter PROVE LeavesTarget
  BY <1>20 DEF DropWriter, BufferLost
<1>21. ASSUME RenamePart PROVE LeavesTarget
  BY <1>21 DEF RenamePart, Leave
<1>22. ASSUME SealFails PROVE LeavesTarget
  BY <1>22 DEF SealFails, KeepOld, Leave
<1>23. ASSUME RenameFails PROVE LeavesTarget
  BY <1>23 DEF RenameFails, Leave
<1>24. ASSUME Finish PROVE LeavesTarget
  BY <1>24 DEF Finish, End
<1>25. ASSUME Crash PROVE LeavesTarget
  BY <1>25 DEF Crash, End
<1>26. ASSUME UNCHANGED vars PROVE LeavesTarget
  BY <1>26 DEF vars
<1>. QED
  BY StepsAre, <1>1, <1>2, <1>3, <1>4, <1>5, <1>6, <1>7, <1>8, <1>9, <1>10, <1>11,
     <1>12, <1>13, <1>14, <1>15, <1>16, <1>17, <1>18, <1>19, <1>20, <1>21,
     <1>22, <1>23, <1>24, <1>25, <1>26 DEF Acts

(* A decryption that fails leaves its target as it was or removes it,      *)
(* unless the last buffer is lost (restore_streamed).                      *)
THEOREM LeavesNoPart == Spec => FailedDecryptLeavesNothing
<1>1. ContainerInv /\ [Next]_vars => [LeavesTarget]_vars
  BY LeavesTargetStep
<1>. QED
  BY <1>1, InvHolds, PTL DEF Spec, FailedDecryptLeavesNothing, LeavesTarget

(* A sound container opens with its own password. *)
LEMMA SoundOpens ==
  ASSUME NEW b, Sound(b)
  PROVE  b.header \in Headers /\ Openable(b, b.header, 1, b.header.pw)
<1>1. b.header \in Headers /\ ChunksOf(b.header) \in 1..MaxChunks
  BY HeaderFacts DEF Sound
<1>2. PICK x \in Blocks \cup {Absent} : b.chunks[1] = Sealed(b.header, 1, x)
  BY <1>1 DEF Sound, InOrder
<1>3. 1 \in 1..MaxChunks /\ 1 <= Len(b.chunks)
  BY <1>1, ContainerAssumption DEF Sound, InOrder
<1>. QED
  BY <1>1, <1>2, <1>3, SealedFacts DEF Openable, Has, Opens

(* What OnlyTypedPasswordFails says of a step *)
TypedFails == pc = "open" /\ pc' = "next" /\ file \notin damaged \cup cut
                => answer \notin {Absent, blob[file].header.pw}
(* Only a password typed for a file fails it. *)
LEMMA TypedFailsStep ==
  ASSUME ContainerInv, [Next]_vars
  PROVE  TypedFails
<1>. SUFFICES ASSUME pc = "open", pc' = "next", file \notin damaged \cup cut
              PROVE  answer \notin {Absent, blob[file].header.pw}
  BY DEF TypedFails
<1>1. file \in Files /\ Sound(blob[file]) /\ Absent \notin Passwords
  BY TypesAre, ContainerAssumption
     DEF ContainerInv, RunTypes, RunParts, PhaseInv, ReadInv, WholeInv
<1>2. blob[file].header \in Headers /\ Openable(blob[file], blob[file].header, 1, blob[file].header.pw)
  BY <1>1, SoundOpens
<1>3. ~Unreadable
  BY <1>2, HeaderFacts DEF Unreadable, Openable
<1>4. GiveUp
  BY <1>3, StepsAre DEF Acts, Start, Take, Edit, Damage, NoPassword, Cached, Typed, AskToDecrypt,
     Open, AskAgain, Truncate, StreamRest, StreamEnd, RestoreModes, StreamFails, FlushFails,
     AskToEncrypt, NoInput, Seal, DropWriter, RenamePart, SealFails, RenameFails, Finish, Crash,
     End, vars
<1>5. retried /\ ~Openable(blob[file], blob[file].header, 1, cache)
  BY <1>4 DEF GiveUp, Rejected
<1>6. cache \in Passwords /\ answer = cache
  BY <1>5 DEF ContainerInv, PasswordInv
<1>. QED
  BY <1>1, <1>2, <1>5, <1>6

(* A file that is sound is refused only a password that was typed for it,  *)
(* and that is not its own (open_with_retry).                              *)
THEOREM RefusesOnlyTyped == Spec => OnlyTypedPasswordFails
<1>1. ContainerInv /\ [Next]_vars => [TypedFails]_vars
  BY TypedFailsStep
<1>. QED
  BY <1>1, InvHolds, PTL DEF Spec, OnlyTypedPasswordFails, TypedFails

-----------------------------------------------------------------------------
(* How long a run can last                                                 *)

(* No more steps than this are left of a run: those of the file under way, *)
(* and for each file still on the list one more than its longest way, which*)
(* is a password asked for twice and every chunk.                          *)
ForFile ==
  CASE pc \in {"idle", "next"} -> 0
    [] pc \in {"modes", "rename"} -> 1
    [] pc = "close" -> 2
    [] pc = "opened" -> 2 + MaxChunks - at
    [] pc = "seal" -> 3 + MaxChunks - at
    [] pc = "restore" -> 4 + MaxChunks
    [] pc = "open" -> (IF retried THEN 5 ELSE 7) + MaxChunks
    [] OTHER -> (IF retried THEN 6 ELSE 8) + MaxChunks
ForList == Cardinality(todo) * (9 + MaxChunks)
Remaining == IF pc = "idle" THEN 0 ELSE 1 + ForList + ForFile

(* The steps left are a number, also for the files on the list.            *)
LEMMA ListCounted ==
  ASSUME IsFiniteSet(Files), ContainerTypeOK
  PROVE  /\ ForList \in Nat /\ ForFile \in Nat
         /\ \A f \in todo : Cardinality(todo \ {f}) * (9 + MaxChunks) = ForList - (9 + MaxChunks)
<1>1. MaxChunks \in Nat /\ at \in Nat /\ at <= MaxChunks
  BY ContainerAssumption DEF ContainerTypeOK
<1>2. Cardinality(todo) \in Nat /\ \A f \in todo : Cardinality(todo \ {f}) = Cardinality(todo) - 1
  BY FS_Subset, FS_CardinalityType, FS_RemoveElement DEF ContainerTypeOK
<1>3. \A c, k \in Nat : c * k \in Nat /\ (c - 1) * k = c * k - k
  OBVIOUS
<1>4. ForFile \in Nat
  BY <1>1 DEF ForFile
<1>. QED
  BY <1>1, <1>2, <1>3, <1>4 DEF ForList

(* Every step of a run brings its end nearer, and an edit cannot put it    *)
(* off.                                                                    *)
Advances == pc # "idle" => /\ Remaining \in Nat /\ Remaining' \in Nat
                           /\ Process \/ Crash => Remaining' < Remaining
                           /\ (\E f \in Files : Edit(f)) => Remaining' = Remaining
LEMMA StepsAdvance ==
  ASSUME IsFiniteSet(Files), ContainerTypeOK, ContainerTypeOK', [Next]_vars
  PROVE  Advances
<1>. SUFFICES ASSUME pc # "idle" PROVE Advances
  BY DEF Advances
<1>. DEFINE K == MaxChunks
<1>1. /\ K \in Nat /\ at \in Nat /\ at <= K /\ at' \in Nat /\ at' <= K
      /\ pc \in Phases /\ pc' \in Phases
  BY ContainerAssumption DEF ContainerTypeOK
<1>2. ForList \in Nat /\ ForFile \in Nat /\ ForList' \in Nat /\ ForFile' \in Nat
  <2>1. ForList \in Nat /\ ForFile \in Nat
    BY ListCounted
  <2>2. ForList' \in Nat
    <3>1. Cardinality(todo') \in Nat
      BY FS_Subset, FS_CardinalityType DEF ContainerTypeOK
    <3>2. \A c, k \in Nat : c * k \in Nat
      OBVIOUS
    <3>. QED
      BY <1>1, <3>1, <3>2 DEF ForList
  <2>3. ForFile' \in Nat
    BY <1>1 DEF ForFile
  <2>. QED
    BY <2>1, <2>2, <2>3
<1>3. /\ Remaining \in Nat /\ Remaining' \in Nat /\ Remaining = 1 + ForList + ForFile
      /\ pc' = "idle" => Remaining' = 0
      /\ pc' # "idle" => Remaining' = 1 + ForList' + ForFile'
  <2>1. /\ Remaining = 1 + ForList + ForFile
        /\ pc' = "idle" => Remaining' = 0
        /\ pc' # "idle" => Remaining' = 1 + ForList' + ForFile'
    BY DEF Remaining
  <2>. QED
    BY <1>2, <2>1
<1>4. ASSUME todo' = todo, ForFile' < ForFile PROVE Remaining' < Remaining
  <2>1. ForList' = ForList
    BY <1>4 DEF ForList
  <2>2. \A l, f, g \in Nat : g < f => 0 < 1 + l + f /\ 1 + l + g < 1 + l + f
    OBVIOUS
  <2>3. 0 < 1 + ForList + ForFile /\ 1 + ForList + ForFile' < 1 + ForList + ForFile
    BY <1>2, <1>4, <2>2
  <2>. QED
    BY <1>3, <2>1, <2>3
<1>5. /\ pc' \in {"idle", "next"} => ForFile' = 0
      /\ pc = "next" => ForFile = 0
      /\ pc \in {"modes", "rename"} => ForFile = 1
      /\ pc' \in {"modes", "rename"} => ForFile' = 1
      /\ pc = "close" => ForFile = 2
      /\ pc' = "close" => ForFile' = 2
      /\ pc = "opened" => ForFile = 2 + K - at
      /\ pc' = "opened" => ForFile' = 2 + K - at'
      /\ pc = "seal" => ForFile = 3 + K - at
      /\ pc' = "seal" => ForFile' = 3 + K - at'
      /\ pc = "restore" => ForFile = 4 + K
      /\ pc' = "restore" => ForFile' = 4 + K
      /\ pc = "open" => ForFile = (IF retried THEN 5 ELSE 7) + K
      /\ pc' = "open" => ForFile' = (IF retried' THEN 5 ELSE 7) + K
      /\ pc = "ask" => ForFile = (IF retried THEN 6 ELSE 8) + K
      /\ pc' = "ask" => ForFile' = (IF retried' THEN 6 ELSE 8) + K
  BY <1>1 DEF ForFile, Phases
<1>. HIDE DEF K
<1>6. ASSUME pc \notin {"idle", "next"}, Leave, todo' = todo PROVE Remaining' < Remaining
  <2>1. ForFile > 0 /\ ForFile' = 0
    BY <1>1, <1>5, <1>6 DEF Leave, Phases
  <2>. QED
    BY <1>4, <1>6, <2>1
<1>7. ASSUME End PROVE Remaining' < Remaining
  <2>1. Remaining' = 0
    BY <1>3, <1>7 DEF End
  <2>. QED
    BY <1>2, <1>3, <2>1
<1>8. ASSUME NEW f \in todo, Take(f) PROVE Remaining' < Remaining
  <2>1. pc = "next" /\ pc' = "ask" /\ todo' = todo \ {f} /\ ~retried'
    BY <1>8 DEF Take
  <2>2. ForList' = ForList - (9 + K)
    BY <2>1, ListCounted DEF ForList, K
  <2>3. ForFile = 0 /\ ForFile' = 8 + K
    BY <1>5, <2>1
  <2>. QED
    BY <1>1, <1>2, <1>3, <2>1, <2>2, <2>3
<1>9. ASSUME AskToDecrypt \/ Open \/ AskAgain \/ Truncate \/ AskToEncrypt
      PROVE  Remaining' < Remaining
  <2>1. /\ todo' = todo
        /\ \/ pc = "ask" /\ pc' \in {"open", "seal"} /\ retried' = retried
           \/ pc = "open" /\ pc' = "restore"
           \/ pc = "open" /\ pc' = "ask" /\ ~retried /\ retried'
           \/ pc = "restore" /\ pc' = "opened"
    <3>1. CASE AskToDecrypt \/ AskToEncrypt
      BY <3>1 DEF AskToDecrypt, AskToEncrypt, Cached, Typed
    <3>2. CASE Open
      BY <3>2 DEF Open
    <3>3. CASE AskAgain
      BY <3>3 DEF AskAgain, Rejected
    <3>4. CASE Truncate
      BY <3>4 DEF Truncate
    <3>. QED
      BY <1>9, <3>1, <3>2, <3>3, <3>4
  <2>2. ForFile' < ForFile
    BY <1>1, <1>5, <2>1
  <2>. QED
    BY <1>4, <2>1, <2>2
<1>10. ASSUME StreamRest \/ StreamEnd \/ Seal \/ DropWriter PROVE Remaining' < Remaining
  <2>1. /\ todo' = todo
        /\ \/ pc = "opened" /\ pc' = "opened" /\ at' = at + 1
           \/ pc = "opened" /\ pc' = "modes"
           \/ pc = "seal" /\ pc' \in {"seal", "close"} /\ at' = at + 1
           \/ pc = "close" /\ pc' = "rename"
    BY <1>10 DEF StreamRest, StreamEnd, Seal, DropWriter
  <2>2. ForFile' < ForFile
    BY <1>1, <1>5, <2>1
  <2>. QED
    BY <1>4, <2>1, <2>2
<1>11. ASSUME \/ NoPassword \/ GiveUp \/ Unreadable \/ RestoreModes \/ StreamFails \/ FlushFails
              \/ NoInput \/ RenamePart \/ SealFails \/ RenameFails
       PROVE  Remaining' < Remaining
  <2>1. pc \notin {"idle", "next"} /\ Leave /\ todo' = todo
    BY <1>11 DEF NoPassword, GiveUp, Rejected, Unreadable, RestoreModes, StreamFails, FlushFails,
       NoInput, RenamePart, SealFails, RenameFails
  <2>. QED
    BY <1>6, <2>1
<1>12. Process \/ Crash => Remaining' < Remaining
  BY <1>7, <1>8, <1>9, <1>10, <1>11 DEF Process, Decrypting, Encrypting, Finish, Crash
<1>13. ASSUME NEW f \in Files, Edit(f) PROVE Remaining' = Remaining
  <2>1. UNCHANGED <<pc, todo, at, retried>>
    BY <1>13 DEF Edit
  <2>. QED
    BY <2>1 DEF Remaining, ForList, ForFile
<1>. QED
  BY <1>3, <1>12, <1>13 DEF Advances

(* No run goes on for ever: however often a password is wrong, whatever    *)
(* the storage holds and whatever fails, every step leaves a run fewer to  *)
(* take.  It is the part of RunEnds that does not need ENABLED.            *)
THEOREM RunsAreBounded ==
  ASSUME IsFiniteSet(Files)
  PROVE  Spec => [][Advances]_vars
<1>1. ContainerInv => ContainerTypeOK
  BY DEF ContainerInv
<1>2. ContainerTypeOK /\ ContainerTypeOK' /\ [Next]_vars => [Advances]_vars
  BY StepsAdvance
<1>. QED
  BY <1>1, <1>2, InvHolds, PTL DEF Spec
=============================================================================
