----------------------------- MODULE Container -----------------------------
(***************************************************************************)
(* Encrypted containers and the password (src/crypt.rs): `*.encrypted`     *)
(* sources written by encryption and read back by decryption, one file     *)
(* after the other in a process that remembers the password.               *)
(*                                                                         *)
(* A container is a header and sealed chunks.  What a chunk authenticates  *)
(* is modelled by what it carries: it opens only under the header, key,    *)
(* position and final flag it was sealed with.  Between runs the storage   *)
(* may damage a container: cut it, or mix it with pieces of other ones.    *)
(***************************************************************************)
EXTENDS Integers, Sequences, FiniteSets

CONSTANTS
  Absent,
  Files,
  Passwords,
  Blocks,       \* what one chunk of plaintext may hold
  Garbage,      \* a chunk no key opens
  InitialTexts, \* contents of the targets to begin with
  NewTexts,     \* contents the user may give them
  MaxChunks,    \* bound: chunks of a plaintext
  MaxSeals,     \* bound: containers made
  MaxEvents,    \* bound: edits of the user, crashes and faults of storage
  EditPhases,   \* values of pc at which the user may edit a plaintext
  Faults        \* subset of {"error", "unflushed", "crash", "damage"}

Contents == {t \in Seq(Blocks) : Len(t) <= MaxChunks}

(* a header declares the length of the plaintext, in chunks *)
Headers == [id : 1..MaxSeals, pw : Passwords, len : 0..MaxChunks]
(* the first chunk also holds the metadata: an empty file is one chunk     *)
ChunksOf(h) == IF h.len = 0 THEN 1 ELSE h.len
BlockAt(t, i) == IF i \in DOMAIN t THEN t[i] ELSE Absent
(* seal: stream_nonce and chunk_aad bind the header (salt, base nonce,     *)
(* declared length), the index and the final flag to the ciphertext.       *)
Sealed(h, i, b) == [header |-> h, index |-> i, last |-> i = ChunksOf(h), block |-> b]
Chunks == [header : Headers, index : 1..MaxChunks, last : BOOLEAN,
           block : Blocks \cup {Absent}]
Targets == [text : Contents, mode : {"private", "recorded"}]
Blobs == [header : Headers \cup {Absent}, chunks : Seq(Chunks \cup {Garbage})]

ASSUME ContainerAssumption ==
  /\ MaxChunks \in Nat \ {0} /\ MaxSeals \in Nat /\ MaxEvents \in Nat
  /\ Absent \notin Passwords /\ Absent \notin Files /\ Absent \notin Blocks
  /\ Absent \notin Headers /\ Absent \notin Targets /\ Absent \notin Blobs
  /\ Garbage \notin Chunks
  /\ InitialTexts \cup NewTexts \subseteq Contents
  (* nobody else writes a target while it is being decrypted *)
  /\ EditPhases \subseteq {"idle", "next", "seal", "close", "rename"}
  /\ Files # {}

VARIABLES
  plain,    \* target files: [text, mode], or Absent
  blob,     \* containers: [header, chunks], or Absent
  part,     \* their .part siblings: the same
  cache,    \* PASSWORD_CACHE
  op,       \* "none", "encrypt" or "decrypt"
  todo,     \* files of the run still to be processed
  file,     \* the file under way, or Absent
  pc,
  head,     \* the header being written or read, or Absent
  at,       \* chunks sealed or opened so far
  retried,  \* already_retried
  (* bounds and history *)
  events, seals,
  made,     \* every chunk ever sealed
  damaged,  \* files whose container the storage damaged
  cut,      \* files of which the end of a buffer was lost
  prior,    \* the target of the file under way before it was touched
  answer    \* the last password typed for the file under way

kept == <<events, made, damaged, cut>>
vars == <<plain, blob, part, cache, op, todo, file, pc, head, at, retried,
          events, seals, made, damaged, cut, prior, answer>>

Phases == {"idle", "next", "ask", "open", "restore", "opened", "modes",
           "seal", "close", "rename"}

ContainerTypeOK ==
  /\ plain \in [Files -> Targets \cup {Absent}]
  /\ blob \in [Files -> Blobs \cup {Absent}]
  /\ part \in [Files -> Blobs \cup {Absent}]
  /\ cache \in Passwords \cup {Absent}
  /\ op \in {"none", "encrypt", "decrypt"}
  /\ todo \subseteq Files
  /\ file \in Files \cup {Absent}
  /\ pc \in Phases
  /\ head \in Headers \cup {Absent}
  /\ at \in 0..MaxChunks
  /\ retried \in BOOLEAN
  /\ events \in 0..MaxEvents /\ seals \in 0..MaxSeals
  /\ made \subseteq Chunks
  /\ damaged \subseteq Files /\ cut \subseteq Files
  /\ pc \in {"idle", "next"} <=> file = Absent
  /\ pc = "idle" <=> op = "none"
  /\ pc \in {"seal", "close", "rename"} => part[file] # Absent

-----------------------------------------------------------------------------
(* The user and the storage *)

Edit(f) ==
  /\ pc \in EditPhases /\ events < MaxEvents
  /\ \E c \in NewTexts : plain' = [plain EXCEPT ![f] = [text |-> c, mode |-> "recorded"]]
  /\ events' = events + 1
  /\ UNCHANGED <<blob, part, cache, op, todo, file, pc, head, at, retried,
                 seals, made, damaged, cut, prior, answer>>

(* A container cut short or grown, a chunk replaced or moved, another      *)
(* version's header                                                        *)
Damages(b) ==
  LET pieces == made \cup {Garbage}
      places == DOMAIN b.chunks
      with(cs) == [b EXCEPT !.chunks = cs]
  IN  {with(SubSeq(b.chunks, 1, k)) : k \in 0..(Len(b.chunks) - 1)}
      \cup {with(Append(b.chunks, c)) : c \in pieces}
      \cup {with([b.chunks EXCEPT ![i] = c]) : i \in places, c \in pieces}
      \cup {with([b.chunks EXCEPT ![i] = b.chunks[j], ![j] = b.chunks[i]]) :
              i, j \in places}
      \cup {[b EXCEPT !.header = c.header] : c \in made}
Damage(f) ==
  /\ "damage" \in Faults /\ pc = "idle" /\ events < MaxEvents
  /\ blob[f] # Absent /\ blob[f].header # Absent
  /\ \E b \in Damages(blob[f]) : blob' = [blob EXCEPT ![f] = b]
  /\ events' = events + 1
  /\ damaged' = damaged \cup {f}
  /\ UNCHANGED <<plain, part, cache, op, todo, file, pc, head, at, retried,
                 seals, made, cut, prior, answer>>

Rest == pc = "idle" /\ UNCHANGED vars

-----------------------------------------------------------------------------
(* A run, file by file *)

Start(o, fs) ==
  /\ pc = "idle"
  /\ o = "decrypt" => \A f \in fs : blob[f] # Absent
  /\ o = "encrypt" => seals < MaxSeals
  /\ op' = o /\ todo' = fs /\ pc' = "next"
  /\ UNCHANGED <<plain, blob, part, cache, file, head, at, retried, seals, kept,
                 prior, answer>>

Take(f) ==
  /\ pc = "next" /\ f \in todo
  /\ op = "encrypt" => seals < MaxSeals
  /\ file' = f /\ todo' = todo \ {f} /\ pc' = "ask"
  /\ retried' = FALSE /\ prior' = plain[f] /\ answer' = Absent
  /\ UNCHANGED <<plain, blob, part, cache, op, head, at, seals, kept>>

(* The file is done, or failed; some commands then go on with the next *)
LeaveUnreset == /\ pc' = "next" /\ UNCHANGED file                 \* mutant
                /\ head' = Absent /\ at' = 0 /\ retried' = FALSE
                /\ prior' = Absent /\ answer' = Absent
Leave == /\ pc' = "next" /\ file' = Absent
         /\ head' = Absent /\ at' = 0 /\ retried' = FALSE
         /\ prior' = Absent /\ answer' = Absent
End == /\ pc' = "idle" /\ op' = "none" /\ todo' = {} /\ cache' = Absent
       /\ file' = Absent /\ head' = Absent /\ at' = 0 /\ retried' = FALSE
       /\ prior' = Absent /\ answer' = Absent
       /\ UNCHANGED <<plain, blob, part, seals, made, damaged, cut>>
Finish == pc = "next" /\ End /\ UNCHANGED events
Crash == /\ "crash" \in Faults /\ pc # "idle" /\ events < MaxEvents
         /\ End
         /\ events' = events + 1

(* obtain_password: the cache, or the provider's answer, cached unless     *)
(* blank.  A provider that fails, or a blank answer, fails the file.       *)
Cached == /\ pc = "ask" /\ cache # Absent
          /\ UNCHANGED <<cache, answer>>
Typed == /\ pc = "ask" /\ cache = Absent
         /\ \E p \in Passwords : cache' = p /\ answer' = p
NoPassword == /\ pc = "ask" /\ cache = Absent
              /\ Leave
              /\ UNCHANGED <<plain, blob, part, cache, op, todo, seals, kept>>

AskToDecrypt ==
  /\ op = "decrypt" /\ (Cached \/ Typed)
  /\ pc' = "open"
  /\ UNCHANGED <<plain, blob, part, op, todo, file, head, at, retried, seals,
                 kept, prior>>

-----------------------------------------------------------------------------
(* Decryption *)

(* decrypt_in_place_detached succeeds *)
OpensAnywhere(c, h, i, pw) ==                                     \* mutant
  c # Garbage /\ c.header = h /\ pw = h.pw
Opens(c, h, i, pw) == /\ c # Garbage
                      /\ c.header = h /\ pw = h.pw
                      /\ c.index = i /\ c.last = (i = ChunksOf(h))

Has(b, i) == i <= Len(b.chunks)
Openable(b, h, i, pw) == Has(b, i) /\ Opens(b.chunks[i], h, i, pw)

(* DecryptSession::open reads the header and the first chunk *)
Open ==
  LET b == blob[file] IN
  /\ pc = "open"
  /\ b.header # Absent /\ Openable(b, b.header, 1, cache)
  /\ pc' = "restore" /\ head' = b.header
  /\ UNCHANGED <<plain, blob, part, cache, op, todo, file, at, retried, seals,
                 kept, prior, answer>>

(* open_with_retry: any failure of the first chunk counts as a wrong       *)
(* password.  The rejected one is forgotten; the first time, one more is   *)
(* asked for.                                                              *)
Rejected == /\ pc = "open"
            /\ blob[file].header # Absent /\ Has(blob[file], 1)
            /\ ~Openable(blob[file], blob[file].header, 1, cache)
AskAgainCached ==                                                 \* mutant
  /\ Rejected /\ ~retried
  /\ retried' = TRUE /\ pc' = "ask"
  /\ UNCHANGED <<plain, blob, part, cache, op, todo, file, head, at, seals, kept,
                 prior, answer>>
AskForEver == /\ Rejected                                          \* mutant
              /\ cache' = Absent /\ pc' = "ask"
              /\ UNCHANGED <<plain, blob, part, op, todo, file, head, at,
                             retried, seals, kept, prior, answer>>
AskAgain == /\ Rejected /\ ~retried
            /\ cache' = Absent /\ retried' = TRUE /\ pc' = "ask"
            /\ UNCHANGED <<plain, blob, part, op, todo, file, head, at, seals,
                           kept, prior, answer>>
GiveUp == /\ Rejected /\ retried
          /\ cache' = Absent
          /\ Leave
          /\ UNCHANGED <<plain, blob, part, op, todo, seals, kept>>
(* a container without its header or its first chunk *)
Unreadable == /\ pc = "open"
              /\ blob[file].header = Absent \/ ~Has(blob[file], 1)
              /\ Leave
              /\ UNCHANGED <<plain, blob, part, cache, op, todo, seals, kept>>

(* restore_streamed truncates the target only now, and writes the chunks   *)
(* to it as they are opened (the first one is, already).  A file that was  *)
(* there keeps its mode, a new one is private.                             *)
Truncate ==
  /\ pc = "restore"
  /\ plain' = [plain EXCEPT ![file] =
       [text |-> << >>, mode |-> IF plain[file] = Absent THEN "private" ELSE plain[file].mode]]
  /\ pc' = "opened"
  /\ UNCHANGED <<blob, part, cache, op, todo, file, head, at, retried, seals,
                 kept, prior, answer>>

StreamRest ==
  LET c == blob[file].chunks[at + 1] IN
  /\ pc = "opened" /\ at < ChunksOf(head) /\ Openable(blob[file], head, at + 1, cache)
  /\ plain' = [plain EXCEPT ![file].text =
                  IF c.block = Absent THEN @ ELSE Append(@, c.block)]
  /\ at' = at + 1
  /\ UNCHANGED <<blob, part, cache, op, todo, file, pc, head, retried, seals,
                 kept, prior, answer>>

(* anything after the final chunk is refused *)
Trailing == Has(blob[file], ChunksOf(head) + 1)
StreamEnd ==
  /\ pc = "opened" /\ at = ChunksOf(head) /\ ~Trailing
  /\ pc' = "modes"
  /\ UNCHANGED <<plain, blob, part, cache, op, todo, file, head, at, retried,
                 seals, kept, prior, answer>>

(* apply_dir_modes and set_permissions *)
RestoreModes ==
  /\ pc = "modes"
  /\ plain' = [plain EXCEPT ![file].mode = "recorded"]
  /\ Leave
  /\ UNCHANGED <<blob, part, cache, op, todo, seals, kept>>

(* A chunk that is missing or does not open, trailing bytes, an I/O error: *)
(* the partly written target is removed ...                                *)
LeavePartial == UNCHANGED plain                                   \* mutant
RemovePartial == plain' = [plain EXCEPT ![file] = Absent]
StreamFails ==
  /\ \/ pc = "opened"
        /\ \/ at < ChunksOf(head) /\ ~Openable(blob[file], head, at + 1, cache)
           \/ at = ChunksOf(head) /\ Trailing
           \/ "error" \in Faults
     \/ pc = "modes" /\ "error" \in Faults
  /\ RemovePartial
  /\ Leave
  /\ UNCHANGED <<blob, part, cache, op, todo, seals, kept>>
BufferLost == /\ "unflushed" \in Faults /\ events < MaxEvents
              /\ events' = events + 1
              /\ cut' = cut \cup {file}
(* ... unless it is the last buffer that cannot be written *)
FlushFails ==
  /\ pc = "modes"
  /\ plain[file].text # << >>
  /\ plain' = [plain EXCEPT ![file].text = SubSeq(@, 1, Len(@) - 1)]
  /\ BufferLost
  /\ Leave
  /\ UNCHANGED <<blob, part, cache, op, todo, seals, made, damaged>>

-----------------------------------------------------------------------------
(* Encryption: encrypt_to_new_file, encrypt_stream *)

(* The declared length is that of the file when its encryption begins; a   *)
(* stale .part is removed, and a new one is given the header.              *)
AskToEncrypt ==
  LET h == [id |-> seals + 1, pw |-> cache', len |-> Len(plain[file].text)] IN
  /\ op = "encrypt" /\ (Cached \/ Typed) /\ plain[file] # Absent
  /\ pc' = "seal" /\ head' = h
  /\ seals' = seals + 1
  /\ part' = [part EXCEPT ![file] = [header |-> h, chunks |-> << >>]]
  /\ UNCHANGED <<plain, blob, op, todo, file, at, retried, kept, prior>>

(* An input that has grown is read up to its declared length.              *)
Short == head.len # 0 /\ at + 1 > Len(plain[file].text)
Seal ==
  LET b == IF head.len = 0 THEN Absent ELSE plain[file].text[at + 1]
      c == Sealed(head, at + 1, b) IN
  /\ pc = "seal" /\ ~Short
  /\ part' = [part EXCEPT ![file].chunks = Append(@, c)]
  /\ made' = made \cup {c}
  /\ at' = at + 1
  /\ pc' = IF at + 1 = ChunksOf(head) THEN "close" ELSE "seal"
  /\ UNCHANGED <<plain, blob, cache, op, todo, file, head, retried, events, seals,
                 damaged, cut, prior, answer>>

(* The writer is dropped: the end of the last chunk - for a small file the *)
(* whole container - is still in its buffer, and is written, or is lost    *)
(* without an error.                                                       *)
Unwritten(b) == {[header |-> h, chunks |-> SubSeq(b.chunks, 1, Len(b.chunks) - 1)] :
                   h \in IF Len(b.chunks) = 1 THEN {b.header, Absent} ELSE {b.header}}
DropWriter ==
  /\ pc = "close"
  /\ \/ UNCHANGED <<part, cut, events>>
     \/ /\ BufferLost
        /\ \E b \in Unwritten(part[file]) : part' = [part EXCEPT ![file] = b]
  /\ pc' = "rename"
  /\ UNCHANGED <<plain, blob, cache, op, todo, file, head, at, retried, seals,
                 made, damaged, prior, answer>>

RenamePart ==
  /\ pc = "rename"
  /\ blob' = [blob EXCEPT ![file] = part[file]]
  /\ part' = [part EXCEPT ![file] = Absent]
  /\ damaged' = damaged \ {file}
  /\ Leave
  /\ UNCHANGED <<plain, cache, op, todo, events, seals, made, cut>>

NoInput == /\ pc = "ask" /\ op = "encrypt" /\ plain[file] = Absent
           /\ Leave
           /\ UNCHANGED <<plain, blob, part, cache, op, todo, seals, kept>>

(* The input is shorter than declared, or a write fails: the .part goes *)
RenameAnyway == blob' = [blob EXCEPT ![file] = part[file]]        \* mutant
KeepOld == UNCHANGED blob
SealFails ==
  /\ \/ pc = "seal" /\ Short
     \/ pc = "seal" /\ "error" \in Faults
  /\ part' = [part EXCEPT ![file] = Absent]
  /\ KeepOld
  /\ Leave
  /\ UNCHANGED <<plain, cache, op, todo, seals, kept>>
(* the rename itself fails: the .part stays *)
RenameFails ==
  /\ pc = "rename" /\ "error" \in Faults
  /\ Leave
  /\ UNCHANGED <<plain, blob, part, cache, op, todo, seals, kept>>

-----------------------------------------------------------------------------
Init == /\ plain \in [Files -> [text : InitialTexts, mode : {"recorded"}]]
        /\ blob = [f \in Files |-> Absent]
        /\ part = blob /\ damaged = {} /\ cut = {}
        /\ cache = Absent /\ op = "none" /\ todo = {} /\ file = Absent
        /\ pc = "idle" /\ head = Absent /\ at = 0 /\ retried = FALSE
        /\ events = 0 /\ seals = 0 /\ made = {} /\ prior = Absent /\ answer = Absent

Decrypting == \/ AskToDecrypt \/ Open \/ AskAgain \/ GiveUp \/ Unreadable
              \/ Truncate \/ StreamRest \/ StreamEnd \/ RestoreModes
              \/ StreamFails \/ FlushFails
Encrypting == \/ AskToEncrypt \/ NoInput \/ Seal \/ DropWriter \/ RenamePart \/ SealFails
              \/ RenameFails
Process == \/ \E f \in todo : Take(f)
           \/ NoPassword \/ Decrypting \/ Encrypting \/ Finish
Next == \/ \E o \in {"encrypt", "decrypt"}, fs \in SUBSET Files \ {{}} : Start(o, fs)
        \/ Process \/ Crash \/ Rest
        \/ \E f \in Files : Edit(f) \/ Damage(f)
Spec == Init /\ [][Next]_vars
(* A started process is scheduled, and its password provider answers *)
FairSpec == Spec /\ WF_vars(Process)

-----------------------------------------------------------------------------
(* Properties *)

(* What decryption accepts is what encryption was given: when the last     *)
(* chunk has been opened, the target holds every chunk of one encryption,  *)
(* in order, whatever the storage made of the container.                   *)
OpenedIsWhole ==
  pc = "modes" => LET t == plain[file].text IN
    /\ Len(t) = head.len
    /\ \A i \in 1..ChunksOf(head) : Sealed(head, i, BlockAt(t, i)) \in made

(* A decryption that is not completed leaves no part of a plaintext: the   *)
(* target is as it was before ("a wrong password never leaves partial      *)
(* output behind") or gone ("a streaming failure removes the partially     *)
(* written target file"), except where the last buffer is lost.            *)
FailedDecryptLeavesNothing ==
  [][op = "decrypt" /\ pc # "next" /\ pc' = "next" =>
       \/ plain'[file] = prior
       \/ plain'[file] = Absent /\ pc \in {"opened", "modes"}
       \/ pc = "modes" /\ plain'[file].mode = "recorded"
       \/ file \in cut']_vars

(* Encryption replaces a container only by a complete one, through every   *)
(* error that is reported and every crash.                                 *)
Whole(b) == b.header # Absent /\ Len(b.chunks) = ChunksOf(b.header)
ContainerWhole ==
  \A f \in Files \ (damaged \cup cut) : blob[f] # Absent => Whole(blob[f])

(* "A failure never leaves a truncated output file behind"                 *)
(* (encrypt_to_new_file), whichever write it is that fails.                *)
NeverTruncated ==
  \A f \in Files \ damaged : blob[f] # Absent => Whole(blob[f])

(* A file is refused for its password only after the user has typed a      *)
(* wrong one for this very file: a password remembered from another file   *)
(* is never held against it (open_with_retry).                             *)
OnlyTypedPasswordFails ==
  [][/\ pc = "open" /\ pc' = "next" /\ file \notin damaged \cup cut
     => answer \notin {Absent, blob[file].header.pw}]_vars

(* Every run ends, however often the password is wrong *)
RunEnds == (op # "none") ~> (op = "none")
=============================================================================
