----------------------------- MODULE Dictionary -----------------------------
(***************************************************************************)
(* The dictionaries of fuzz_one: the user's tokens (load_extras), those    *)
(* found while bits are flipped (maybe_add_auto), the stages that put both *)
(* into a file, and the files that carry the found ones over a resume      *)
(* (save_auto, load_auto).                                                 *)
(*                                                                         *)
(* A token and a file are sequences of bytes.  The parsing of a dictionary *)
(* file, what havoc does with tokens, and more than MAX_DET_EXTRAS user    *)
(* tokens, of which dice choose, are left out.                             *)
(***************************************************************************)
EXTENDS Naturals, Sequences, FiniteSets, SequencesExt

CONSTANTS
  Inputs,              \* files that fuzz_one is called with
  Effects,             \* what the effector map may flag of each
  Dictionaries,        \* the tokens -x may name, as the directory returns them
  InterestingTokens,   \* tokens that are built-in values in either order of bytes
  MIN_AUTO_EXTRA, MAX_AUTO_EXTRA,
  USE_AUTO_EXTRAS, MAX_AUTO_EXTRAS,
  MAX_CALLS,           \* bound on calls of fuzz_one
  SameDictionary       \* every resume gets the same -x

Bytes == 0..255

(* Files and tokens of the user are never empty: read_testcases and        *)
(* load_extras pass over empty files, an empty keyword ends the fuzzer.    *)
ASSUME DictionaryAssumption ==
  /\ Inputs \subseteq Seq(Bytes) \ {<<>>}
  /\ Dictionaries \subseteq Seq(Seq(Bytes) \ {<<>>})
  /\ {MIN_AUTO_EXTRA, MAX_AUTO_EXTRA, USE_AUTO_EXTRAS, MAX_AUTO_EXTRAS} \subseteq Nat
  /\ MIN_AUTO_EXTRA > 1 /\ USE_AUTO_EXTRAS > 0 /\ MAX_AUTO_EXTRAS >= 2 * USE_AUTO_EXTRAS
  /\ MAX_CALLS \in Nat /\ SameDictionary \in BOOLEAN /\ <<>> \in Dictionaries

VARIABLES
  place,           \* of the process; "off" without one
  dictionary,      \* what -x names
  extras,          \* the user's tokens, once they are loaded
  a_extras,        \* the found tokens, [data, hit_cnt]
  auto_changed,
  input, out_buf,  \* the file fuzz_one works on, and its copy
  eff_bytes,       \* those flagged in eff_map
  cksums,          \* the checksum after a flip of the lowest bit, by byte
  walk,            \* what the walking bit collects, [a_collect, a_len, prev_cksum]
  found,           \* tokens on their way to maybe_add_auto
  stage_cur_byte,  \* in the stages that overwrite: the place,
  cur_token,       \* the token that is next there,
  last_len,        \* and the length of the last one written
  ran,             \* files run in the dictionary stages of this call
  saving,          \* steps of save_auto that were made, 0 outside it
  auto_files,      \* queue/.state/auto_extras, <<>> for a torn file
  old_files,       \* {the same of _resume}, {} without that directory
  calls

dictionaries == <<dictionary, extras, a_extras>>
position == <<stage_cur_byte, cur_token, last_len>>
call == <<input, out_buf, eff_bytes, cksums, walk, position, ran, calls>>
disk == <<auto_files, old_files>>
dictionaryVars == <<place, dictionaries, auto_changed, call, found, saving, disk>>

-----------------------------------------------------------------------------
(* maybe_add_auto.                                                         *)

MinOf(m, n) == IF m < n THEN m ELSE n

Lower(byte) == IF byte \in 65..90 THEN byte + 32 ELSE byte
Alike(s, t) == Len(s) = Len(t) /\ \A i \in DOMAIN s : Lower(s[i]) = Lower(t[i])

Identical(t) == \A i \in DOMAIN t : t[i] = t[1]

(* compare_extras_len; entries of one length may come in any order.        *)
SortedByLen(s) ==
  {p \in {[i \in DOMAIN s |-> s[f[i]]] : f \in SetToSeqs(DOMAIN s)} :
     \A i, j \in DOMAIN p : i < j => Len(p[i]) <= Len(p[j])}

(* "We optimize by exploiting the fact that extras[] are sorted by size":  *)
(* only the tokens from the first that is as long, on to one that is not.  *)
InExtras(t) ==
  \E i \in DOMAIN extras :
    /\ Alike(extras[i], t)
    /\ \A k \in 1..i - 1 : Len(extras[k]) < Len(t)
                            \/ \A m \in k..i : Len(extras[m]) = Len(t)

Rejected(t) == Identical(t) \/ t \in InterestingTokens \/ InExtras(t)

Top(l) == 1..MinOf(USE_AUTO_EXTRAS, Len(l))

ByHits(l) == \A i, j \in DOMAIN l : i < j /\ j \notin Top(l) => l[i].hit_cnt >= l[j].hit_cnt
BySize(l) == \A i, j \in Top(l) : i < j => Len(l[i].data) <= Len(l[j].data)

(* The two sorts, the second one of those in use only.  A bug: only the    *)
(* first.                                                                  *)
SortedByHits(l) ==
  {p \in SetToSeqs(Range(l)) : \A i, j \in DOMAIN p : i < j => p[i].hit_cnt >= p[j].hit_cnt}
Sorted(l) == {p \in SetToSeqs(Range(l)) : ByHits(p) /\ BySize(p)}

Seen(t) == {i \in DOMAIN a_extras : Alike(a_extras[i].data, t)}
New(t) == [data |-> t, hit_cnt |-> 0]

(* A token of the bottom half gives way if there is no room.               *)
BottomHalf == MAX_AUTO_EXTRAS \div 2 + 1..MAX_AUTO_EXTRAS \div 2 + (MAX_AUTO_EXTRAS + 1) \div 2

WithToken(t) ==
  IF Seen(t) # {} THEN {[a_extras EXCEPT ![i].hit_cnt = @ + 1] : i \in Seen(t)}
  ELSE IF Len(a_extras) < MAX_AUTO_EXTRAS THEN {Append(a_extras, New(t))}
  ELSE {[a_extras EXCEPT ![i] = New(t)] : i \in BottomHalf}

\* A bug of MaybeAddAuto: the list counts as changed if it has a new token.
ChangedByNew(t) ==
  IF Rejected(t) THEN UNCHANGED <<a_extras, auto_changed>>
  ELSE /\ \E l \in WithToken(t) : a_extras' \in Sorted(l)
       /\ auto_changed' = (auto_changed \/ Seen(t) = {})

MaybeAddAuto(t) ==
  IF Rejected(t) THEN UNCHANGED <<a_extras, auto_changed>>
  ELSE /\ \E l \in WithToken(t) : a_extras' \in Sorted(l)
       /\ auto_changed' = TRUE

-----------------------------------------------------------------------------
(* The trick of the walking bit: bytes next to each other whose lowest bit *)
(* gives the same trace, not the entry's own, are a token.                 *)
EXEC_CKSUM == 0

Restart(cksum) == [a_collect |-> <<>>, a_len |-> 0, prev_cksum |-> cksum]

Grab(w, byte) ==
  [w EXCEPT !.a_collect = IF w.a_len < MAX_AUTO_EXTRA THEN Append(@, byte) ELSE @,
            !.a_len = @ + 1]

Output(w) ==
  IF w.a_len \in MIN_AUTO_EXTRA..MAX_AUTO_EXTRA THEN Append(found, w.a_collect) ELSE found

LastByte == Len(cksums) + 1 = Len(input)

\* A bug of Found: a token at the end of the file is not put out.
FoundBefore(cksum, byte) == IF cksum # walk.prev_cksum THEN Output(walk) ELSE found

(* What is put out by one more checksum: a token ends where another one    *)
(* begins, or with the file.                                               *)
Found(cksum, byte) ==
  IF cksum # walk.prev_cksum THEN Output(walk)
  ELSE IF LastByte THEN Output(Grab(walk, byte)) ELSE found

Collected(cksum, byte) ==
  LET w == IF cksum # walk.prev_cksum THEN Restart(cksum) ELSE walk
  IN IF cksum # EXEC_CKSUM THEN Grab(w, byte) ELSE w

-----------------------------------------------------------------------------
(* The stages.                                                             *)

Write(buf, i, t) == [k \in DOMAIN buf |-> IF k \in i..i + Len(t) - 1 THEN t[k - i + 1] ELSE buf[k]]
Room(buf, i, t) == i + Len(t) - 1 <= Len(buf)
HasEffect(i, t) == \E k \in i..i + Len(t) - 1 : k \in eff_bytes

(* A token that does not fit, is there already, or has no effect.          *)
LeftOut(t) ==
  \/ ~Room(out_buf, stage_cur_byte, t)
  \/ SubSeq(out_buf, stage_cur_byte, stage_cur_byte + Len(t) - 1) = t
  \/ ~HasEffect(stage_cur_byte, t)

(* At one place tokens are written over each other; then as many bytes are *)
(* restored as the last one has.                                           *)
TryToken(tokens) ==
  /\ cur_token \in DOMAIN tokens
  /\ LET t == tokens[cur_token]
     IN IF LeftOut(t) THEN UNCHANGED <<out_buf, ran, last_len>>
        ELSE /\ out_buf' = Write(out_buf, stage_cur_byte, t)
             /\ ran' = ran \cup {out_buf'} /\ last_len' = Len(t)
  /\ cur_token' = cur_token + 1 /\ UNCHANGED stage_cur_byte

RestoreBytes(tokens) ==
  /\ cur_token > Len(tokens)
  /\ out_buf' = Write(out_buf, stage_cur_byte,
                      SubSeq(input, stage_cur_byte, stage_cur_byte + last_len - 1))
  /\ stage_cur_byte' = stage_cur_byte + 1 /\ cur_token' = 1 /\ last_len' = 0
  /\ UNCHANGED ran

OverwriteStart == stage_cur_byte' = 1 /\ cur_token' = 1 /\ last_len' = 0

OverwriteEnds(tokens) ==
  /\ tokens = <<>> \/ stage_cur_byte > Len(input)
  /\ OverwriteStart /\ UNCHANGED <<out_buf, ran>>

InLoop(tokens) == tokens # <<>> /\ stage_cur_byte <= Len(input)

Inserted(buf, i, t) == SubSeq(buf, 1, i) \o t \o SubSeq(buf, i + 1, Len(buf))
Insertions(buf, tokens) == {Inserted(buf, i, t) : i \in 0..Len(buf), t \in Range(tokens)}

AutoTokens == [i \in Top(a_extras) |-> a_extras[i].data]

Busy == saving = 0

Goto(from, to) == place = from /\ place' = to /\ Busy

(* The walking bit begins, then a byte of the file is done.  Tokens are    *)
(* handed over in the order they are found; until the stages begin nobody  *)
(* looks.                                                                  *)
WalkingBit ==
  /\ Goto("main", "flip") /\ calls < MAX_CALLS
  /\ \E f \in Inputs : input' = f /\ out_buf' = f
  /\ cksums' = <<>> /\ walk' = Restart(EXEC_CKSUM) /\ found' = <<>>
  /\ OverwriteStart /\ ran' = {} /\ calls' = calls + 1
  /\ UNCHANGED <<eff_bytes, dictionaries, auto_changed, saving, disk>>

FlipByte ==
  /\ Goto("flip", IF LastByte THEN "flipped" ELSE "flip")
  /\ \E cksum \in 0..2 :
       LET byte == input[Len(cksums) + 1]
       IN /\ cksums' = Append(cksums, cksum)
          /\ found' = Found(cksum, byte)
          /\ walk' = IF LastByte THEN Restart(EXEC_CKSUM) ELSE Collected(cksum, byte)
  /\ UNCHANGED <<input, out_buf, eff_bytes, position, ran, calls, dictionaries, auto_changed, saving, disk>>

(* load_auto looks at the length of a token first.                         *)
Usable(t) == Len(t) \in MIN_AUTO_EXTRA..MAX_AUTO_EXTRA

HandOver ==
  /\ Busy /\ found # <<>>
  /\ \/ /\ place \in {"flipped", "offer"} /\ place' = "offer"
        /\ MaybeAddAuto(Head(found))
     \/ /\ place = "load" /\ place' = "load"
        /\ IF Usable(Head(found)) THEN MaybeAddAuto(Head(found))
           ELSE UNCHANGED <<a_extras, auto_changed>>
  /\ found' = Tail(found) /\ cksums' = <<>>
  /\ UNCHANGED <<dictionary, extras, input, out_buf, eff_bytes, walk, position, ran, calls, saving, disk>>

(* The other stages up to the dictionaries; one of them makes eff_map.     *)
AllHandedOver ==
  /\ found = <<>>
  /\ \/ Goto("flipped", "user_over") \/ Goto("offer", "user_over")
  /\ eff_bytes' \in Effects[input] /\ cksums' = <<>>
  /\ UNCHANGED <<dictionaries, auto_changed, input, out_buf, walk, position, ran, calls, found, saving, disk>>

InStage == UNCHANGED <<dictionaries, auto_changed, input, eff_bytes, cksums, walk, calls, found, saving, disk>>

OverwriteUser ==
  /\ InStage
  /\ \/ Goto("user_over", "user_over") /\ InLoop(extras) /\ (TryToken(extras) \/ RestoreBytes(extras))
     \/ Goto("user_over", "user_insert") /\ OverwriteEnds(extras)

InsertUser ==
  /\ Goto("user_insert", "auto_over")
  /\ ran' = ran \cup Insertions(out_buf, extras)
  /\ UNCHANGED <<out_buf, position>> /\ InStage

OverwriteAuto ==
  /\ InStage
  /\ \/ Goto("auto_over", "auto_over") /\ InLoop(AutoTokens)
        /\ (TryToken(AutoTokens) \/ RestoreBytes(AutoTokens))
     \/ Goto("auto_over", "marked") /\ OverwriteEnds(AutoTokens)

NoCall ==
  /\ input' = <<>> /\ out_buf' = <<>> /\ eff_bytes' = {} /\ cksums' = <<>> /\ walk' = Restart(EXEC_CKSUM)
  /\ OverwriteStart /\ ran' = {} /\ found' = <<>>

(* The call ends after the last stage, or is abandoned in any.             *)
Leave ==
  /\ Busy /\ place \in {"flip", "flipped", "offer", "user_over", "user_insert", "auto_over", "marked"}
  /\ place' = "main" /\ NoCall
  /\ UNCHANGED <<dictionaries, auto_changed, calls, saving, disk>>

-----------------------------------------------------------------------------
(* save_auto: after the dry run, from show_stats, and at the end.          *)

PutFile(n, content) ==
  auto_files' = IF n <= Len(auto_files) THEN [auto_files EXCEPT ![n] = content]
                ELSE Append(auto_files, content)

StartSaving ==
  /\ auto_changed' = FALSE
  /\ saving' = IF auto_changed THEN 1 ELSE 0

EnterMain ==
  /\ Goto("dry_run", "main")
  /\ StartSaving
  /\ UNCHANGED <<dictionaries, call, found, disk>>

SaveAuto ==
  /\ Busy /\ place \in {"main", "offer"} /\ auto_changed
  /\ StartSaving
  /\ UNCHANGED <<place, dictionaries, call, found, disk>>

(* Each file is truncated, then written.                                   *)
SaveFile ==
  /\ saving > 0
  /\ LET n == (saving + 1) \div 2
     IN IF n \in Top(a_extras)
        THEN /\ PutFile(n, IF saving % 2 = 1 THEN <<>> ELSE a_extras[n].data)
             /\ saving' = saving + 1
        ELSE saving' = 0 /\ UNCHANGED auto_files
  /\ UNCHANGED <<place, dictionaries, auto_changed, call, found, old_files>>

Kill ==
  /\ place # "off" /\ place' = "off"
  /\ extras' = <<>> /\ a_extras' = <<>> /\ auto_changed' = FALSE
  /\ NoCall /\ saving' = 0
  /\ UNCHANGED <<dictionary, calls, disk>>

(* "-i -": the old queue is moved away unless an earlier one is there, and *)
(* load_auto reads its tokens.                                             *)
Resume ==
  /\ place = "off" /\ place' = "load"
  /\ old_files' = IF old_files = {} THEN {auto_files} ELSE old_files
  /\ auto_files' = <<>>
  /\ \E s \in old_files' : found' = s
  /\ UNCHANGED <<dictionaries, auto_changed, call, saving>>

(* pivot_inputs deletes the old queue, then load_extras reads the user's.  *)
LoadExtras ==
  /\ Goto("load", "dry_run") /\ found = <<>>
  /\ old_files' = {}
  /\ dictionary' \in IF SameDictionary THEN {dictionary} ELSE Dictionaries
  /\ extras' \in SortedByLen(dictionary')
  /\ UNCHANGED <<a_extras, auto_changed, call, found, saving, auto_files>>

DictionaryInit ==
  /\ place = "dry_run" /\ dictionary \in Dictionaries /\ extras \in SortedByLen(dictionary)
  /\ a_extras = <<>> /\ auto_changed = FALSE
  /\ input = <<>> /\ out_buf = <<>> /\ eff_bytes = {} /\ cksums = <<>> /\ walk = Restart(EXEC_CKSUM)
  /\ stage_cur_byte = 1 /\ cur_token = 1 /\ last_len = 0 /\ ran = {} /\ found = <<>>
  /\ saving = 0 /\ auto_files = <<>> /\ old_files = {} /\ calls = 0

DictionaryNext ==
  \/ WalkingBit \/ FlipByte \/ HandOver \/ AllHandedOver
  \/ OverwriteUser \/ InsertUser \/ OverwriteAuto \/ Leave
  \/ EnterMain \/ SaveAuto \/ SaveFile
  \/ Kill \/ Resume \/ LoadExtras

DictionarySpec == DictionaryInit /\ [][DictionaryNext]_dictionaryVars

-----------------------------------------------------------------------------

(* The tokens found are the longest runs of bytes with one checksum that   *)
(* is not the entry's own, if their length is allowed, in order; runs that *)
(* touch each other or an end of the file included.                        *)
IsRun(i, j) ==
  /\ cksums[i] # EXEC_CKSUM /\ \A k \in i..j : cksums[k] = cksums[i]
  /\ i > 1 => cksums[i - 1] # cksums[i]
  /\ j < Len(input) => cksums[j + 1] # cksums[i]

TokensAreRuns ==
  place = "flipped" =>
    LET runs == {r \in (DOMAIN input) \X (DOMAIN input) :
                   r[1] <= r[2] /\ IsRun(r[1], r[2]) /\ Usable(SubSeq(input, r[1], r[2]))}
    IN \E order \in SetToSeqs(runs) :
         /\ \A m, n \in DOMAIN order : m < n => order[m][1] < order[n][1]
         /\ found = [n \in DOMAIN order |-> SubSeq(input, order[n][1], order[n][2])]

(* When an entry is about to be marked as done, each token in use was      *)
(* written alone over the file at each place with room and an effect, each *)
(* of the user's was inserted everywhere, and nothing else was run: no     *)
(* token left bytes behind for the next.                                   *)
EveryTokenIsTried ==
  place = "marked" =>
    LET tokens == Range(extras) \cup Range(AutoTokens)
        places == {p \in (DOMAIN input) \X tokens : Room(input, p[1], p[2]) /\ HasEffect(p[1], p[2])}
    IN /\ out_buf = input
       /\ ran \ {input} = ({Write(input, p[1], p[2]) : p \in places} \ {input}) \cup Insertions(input, extras)

(* No found token is there twice, in either case of letters, or is one of  *)
(* the user's ("Reject anything that matches existing extras").  It holds  *)
(* while the user's tokens stay the same: load_auto runs before            *)
(* load_extras.                                                            *)
NoTokenTwice ==
  /\ \A i, j \in DOMAIN a_extras : Alike(a_extras[i].data, a_extras[j].data) => i = j
  /\ \A i \in DOMAIN a_extras, j \in DOMAIN extras : ~Alike(a_extras[i].data, extras[j])

(* What is not written because nothing changed is on disk: the files are   *)
(* the tokens in use, in their order, after kills and resumes, too.        *)
SavedIsCurrent ==
  place \notin {"off", "load"} /\ Busy /\ ~auto_changed => auto_files = AutoTokens

(* The old queue "gets deleted once import to the new queue/ is finished": *)
(* the tokens read from it are on disk.                                    *)
TokensStayOnDisk ==
  place = "dry_run" => Range(AutoTokens) \subseteq Range(auto_files) \cup UNION {Range(s) : s \in old_files}
=============================================================================
