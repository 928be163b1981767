------------------------------ MODULE ShardSet ------------------------------
(***************************************************************************)
(* ShardSet of src/shard.cpp: a list of shards that is loaded from a       *)
(* manifest, discovered in a directory, added to and saved, while the      *)
(* process may crash and writes to the manifest may fail.  The manifest on *)
(* disk is a list of lines of which the last may be torn; std::ofstream    *)
(* keeps what was inserted (`text') and passes a prefix of it on.          *)
(*                                                                         *)
(* A path is the file it names and where it is anchored: "root" (absolute),*)
(* "cwd", or "manifest" for one written relative to the manifest.          *)
(***************************************************************************)
EXTENDS Integers, Sequences

CONSTANTS
  Files,        (* the files shards lie in, ordered as by name              *)
  TabFiles,     (* those whose path has a tab or a newline                  *)
  HashFiles,    (* those whose path, when it is relative, starts with `#'   *)
  OpaqueFiles,  (* those std::filesystem::relative fails on                 *)
  Elsewhere,    (* what a path resolved against a wrong directory names     *)
  Alignment,    (* load's `alignment'                                       *)
  Modulus,      (* 2^64, the range of std::uint64_t                         *)
  Added,        (* the shards a caller may add                              *)
  Manifests,    (* what the manifest may hold at first                      *)
  Directories,  (* what the directory to discover may hold                  *)
  MaxShards,    (* bound: the length of a list that is added to             *)
  MaxCalls      (* bound: loads, saves and discovers in a behaviour         *)

ASSUME FilesAssumption ==
  /\ Files \subseteq Nat /\ Elsewhere \in Nat \ Files
  /\ TabFiles \subseteq Files /\ HashFiles \subseteq Files /\ OpaqueFiles \subseteq Files
ASSUME NumbersAssumption ==
  /\ Alignment \in Nat \ {0} /\ Modulus \in Nat \ {0} /\ MaxShards \in Nat
  /\ MaxCalls \in Nat
EntryType ==
  [kind : {"file", "other", "unknown", "gone"}, hidden : BOOLEAN, size : 0 .. Modulus - 1]
ASSUME DirectoriesAssumption == Directories \subseteq [Files -> EntryType]

PathType ==
  [file : Files \cup {Elsewhere}, base : {"root", "cwd", "manifest"}]
ShardType ==
  [path : PathType, offset : 0 .. Modulus - 1, length : 0 .. Modulus - 1]
\* Numbers in a line are decimal and of any size.
LineType ==
  [kind : {"shard", "comment", "malformed"}, path : PathType, offset : Nat, length : Nat]
ASSUME InputsAssumption == Manifests \subseteq Seq(LineType) /\ Added \subseteq ShardType

VARIABLES
  has_directory,  (* the manifest's path has a directory, fixed             *)
  shards_,        (* the object's list                                      *)
  manifest,       (* the lines on disk                                      *)
  text,           (* what save has inserted in its stream                   *)
  bad,            (* a write has failed: the stream drops what is inserted  *)
  saved,          (* history: the list the last save started with           *)
  save_result,    (* what the last save that opened the manifest returned   *)
  pc,             (* "idle", or where save or discover is                   *)
  calls,          (* how many loads, saves and discovers were started       *)
  result,         (* what the last other call returned                      *)
  directory,      (* the entries of the directory discover is reading       *)
  visited, ec, files, set  (* its locals                                    *)

saveVars == <<text, bad, saved, save_result>>
discoverVars == <<directory, visited, ec, files, set>>
vars == <<has_directory, shards_, manifest, saveVars, pc, calls, result, discoverVars>>

NoPath == [file |-> Elsewhere, base |-> "root"]
Header == [kind |-> "comment", path |-> NoPath, offset |-> 0, length |-> 0]
Malformed == [Header EXCEPT !.kind = "malformed"]

Gone == [f \in Files |-> [kind |-> "gone", hidden |-> FALSE, size |-> 0]]

Init ==
  /\ has_directory \in BOOLEAN
  /\ shards_ = <<>> /\ manifest \in Manifests
  /\ text = <<>> /\ bad = FALSE /\ saved = <<>> /\ save_result = "never"
  /\ pc = "idle" /\ calls = 0 /\ result = "none"
  /\ directory = Gone /\ visited = {} /\ ec = FALSE /\ files = {} /\ set = <<>>

StartCall == pc = "idle" /\ calls < MaxCalls /\ calls' = calls + 1

-----------------------------------------------------------------------------
(* Shard, and add, which checks nothing.                                    *)

end(shard) == (shard.offset + shard.length) % Modulus
contains(shard, position) == position >= shard.offset /\ position < end(shard)

Add(shard) ==
  /\ pc = "idle" /\ Len(shards_) < MaxShards
  /\ shards_' = Append(shards_, shard)
  /\ UNCHANGED <<has_directory, calls, manifest, saveVars, pc, result, discoverVars>>

-----------------------------------------------------------------------------
(* load.  The manifest is read in one piece, below the stream's buffer.     *)

\* A blank line is as good as a comment; a path that starts with `#' too.
Skipped(line) ==
  \/ line.kind = "comment"
  \/ line.kind = "shard" /\ line.path.file \in HashFiles /\ line.path.base # "root"

\* Mutant: the sum is compared only after it was widened.
OverflowsNever(line) == FALSE
Overflows(line) == (line.offset + line.length) % Modulus < line.offset

\* split_line fails, or from_chars finds a number out of range.
Unparsable(line) ==
  line.kind = "malformed" \/ line.offset >= Modulus \/ line.length >= Modulus

Rejected(line) ==
  \/ Unparsable(line)
  \/ line.length = 0
  \/ line.offset % Alignment # 0
  \/ Overflows(line)

\* A relative path is taken from the manifest's directory, which is the right
\* one only if save could make it relative to that.
Resolved(path) ==
  IF ~has_directory \/ path.base = "root" THEN path
  ELSE [file |-> IF path.base = "manifest" THEN path.file ELSE Elsewhere, base |-> "cwd"]

Parsed(line) ==
  [path |-> Resolved(line.path), offset |-> line.offset, length |-> line.length]

\* The lines of the loop that are not skipped, in their order.
Entries(lines) ==
  LET kept[n \in 0 .. Len(lines)] ==
        IF n = 0 THEN <<>>
        ELSE IF Skipped(lines[n]) THEN kept[n - 1]
        ELSE Append(kept[n - 1], lines[n])
  IN  kept[Len(lines)]
Loads(lines) == \A i \in DOMAIN Entries(lines) : ~Rejected(Entries(lines)[i])
Loaded(lines) == [i \in DOMAIN Entries(lines) |-> Parsed(Entries(lines)[i])]

Load ==
  /\ StartCall
  /\ Loads(manifest)
  /\ shards_' = Loaded(manifest)
  /\ result' = "ok"
  /\ UNCHANGED <<has_directory, manifest, saveVars, pc, discoverVars>>

\* The manifest cannot be opened or read, or has a line that is not right.
LoadFails ==
  /\ pc = "idle"
  /\ result' = "error"
  /\ UNCHANGED <<has_directory, calls, shards_, manifest, saveVars, pc, discoverVars>>

-----------------------------------------------------------------------------
(* save.                                                                    *)

\* The stream is opened on what `kept' is left of the old manifest.
OpensWith(kept) ==
  /\ StartCall
  /\ manifest' = kept
  /\ text' = <<Header>>
  /\ bad' = FALSE
  /\ saved' = shards_ /\ save_result' = "none"
  /\ pc' = "lines"
  /\ UNCHANGED <<has_directory, shards_, result, discoverVars>>

\* Mutant: the stream is opened without trunc.
BeginSaveKeeping == OpensWith(manifest)

\* std::ofstream with trunc: the old manifest is gone.
BeginSave == OpensWith(<<>>)

SaveCannotOpen ==
  /\ pc = "idle"
  /\ result' = "error"
  /\ UNCHANGED <<has_directory, calls, shards_, manifest, saveVars, pc, discoverVars>>

\* Mutant: the path is written as it is.
WrittenAsIs(path) == path
Written(path) ==
  IF has_directory /\ path.file \notin OpaqueFiles
    THEN [file |-> path.file, base |-> "manifest"]
    ELSE path

LineOf(shard) ==
  [kind |-> "shard", path |-> Written(shard.path),
   offset |-> shard.offset, length |-> shard.length]

\* Mutant: the list is written from its end.
LastShard == shards_[Len(shards_) + 1 - Len(text)]
NextShard == shards_[Len(text)]

\* A stream that has failed ignores what is inserted; the model keeps it in
\* `text', from where nothing is flushed any more.
WriteLine ==
  /\ pc = "lines" /\ Len(text) <= Len(shards_)
  /\ NextShard.path.file \notin TabFiles
  /\ text' = Append(text, LineOf(NextShard))
  /\ UNCHANGED <<has_directory, calls, shards_, manifest, bad, saved, save_result, pc, result,
                 discoverVars>>

\* The return in the loop: the lines before this one stay.
PathRejected ==
  /\ pc = "lines" /\ Len(text) <= Len(shards_)
  /\ NextShard.path.file \in TabFiles
  /\ pc' = "close" /\ save_result' = "error"
  /\ UNCHANGED <<has_directory, calls, shards_, manifest, text, bad, saved, result, discoverVars>>

\* `if (!out)', before the stream is flushed.
CheckStream ==
  /\ pc = "lines" /\ Len(text) > Len(shards_)
  /\ pc' = "close"
  /\ save_result' = IF bad THEN "error" ELSE "ok"
  /\ UNCHANGED <<has_directory, calls, shards_, manifest, text, bad, saved, result, discoverVars>>

\* The decimal digits of the largest std::uint64_t.
Digits == CHOOSE d \in 1 .. Modulus : 10 ^ (d - 1) < Modulus /\ Modulus <= 10 ^ d

\* The numbers a length becomes when its last digits are cut off.
FirstDigits(length) == {n \in 1 .. length : \E k \in 1 .. Digits : n = length \div 10 ^ k}

\* What is left of a line that is cut off: no second tab, a tab with no digits
\* after it, or the first digits of its length.
Cut(line) ==
  IF line.kind = "comment" \/ Skipped(line) THEN {Header}
  ELSE {Malformed} \cup {[line EXCEPT !.length = n] : n \in FirstDigits(line.length)}

\* The stream's buffer reaches the disk up to some byte.  No line is cut twice.
FlushTo(lines) ==
  \/ \E n \in Len(manifest) .. Len(text) : lines = SubSeq(text, 1, n)
  \/ \E n \in Len(manifest) .. Len(text) - 1 :
       \E line \in Cut(text[n + 1]) : lines = Append(SubSeq(text, 1, n), line)

Flush ==
  /\ pc = "lines" /\ ~bad
  /\ FlushTo(manifest')
  /\ bad' \in BOOLEAN
  /\ UNCHANGED <<has_directory, calls, shards_, text, saved, save_result, pc, result, discoverVars>>

\* The destructor's flush, whose failure nobody sees.
Close ==
  /\ pc = "close"
  /\ IF bad THEN UNCHANGED manifest ELSE FlushTo(manifest')
  /\ pc' = "idle" /\ text' = <<>> /\ bad' = FALSE
  /\ UNCHANGED <<has_directory, calls, shards_, saved, save_result, result, discoverVars>>

\* The process ends and another one starts with an empty list.
Crash ==
  /\ pc \in {"lines", "close"}
  /\ shards_' = <<>> /\ text' = <<>> /\ bad' = FALSE
  /\ pc' = "idle" /\ save_result' = "none"
  /\ UNCHANGED <<has_directory, calls, manifest, saved, result, discoverVars>>

-----------------------------------------------------------------------------
(* discover.  The directory is read in any order, and files may go away     *)
(* while it is.                                                             *)

\* Bound: discover, a factory that looks at nothing else, is the first call.
BeginDiscover ==
  /\ StartCall /\ calls = 0 /\ shards_ = <<>>
  /\ directory' \in Directories
  /\ pc' = "iterate"
  /\ UNCHANGED <<has_directory, shards_, manifest, saveVars, result, visited, ec, files, set>>

Returns(outcome) ==
  /\ pc' = "idle" /\ result' = outcome
  /\ directory' = Gone /\ visited' = {} /\ ec' = FALSE /\ files' = {} /\ set' = <<>>
  /\ UNCHANGED <<has_directory, calls, manifest, saveVars>>

\* Not a directory, or it cannot be read.
DiscoverFails ==
  /\ pc = "iterate" /\ visited = {}
  /\ Returns("error")
  /\ UNCHANGED shards_

Present == {f \in Files : directory[f].kind # "gone"}

\* Mutant: hidden files are taken too.
TakenHidden(entry) == entry.kind = "file"
Taken(entry) == ~entry.hidden /\ entry.kind = "file"

\* is_regular_file(ec) sets ec or clears it; a hidden entry leaves it alone.
Visit(f) ==
  /\ pc = "iterate" /\ f \in Present \ visited
  /\ visited' = visited \cup {f}
  /\ ec' = IF directory[f].hidden THEN ec ELSE directory[f].kind = "unknown"
  /\ files' = IF Taken(directory[f]) THEN files \cup {f} ELSE files
  /\ UNCHANGED <<has_directory, calls, shards_, manifest, saveVars, pc, result, directory, set>>

\* Only the entry that came last decides whether there was an error.
EndIteration ==
  /\ pc = "iterate" /\ Present \subseteq visited
  /\ ~ec
  /\ pc' = "stat"
  /\ UNCHANGED <<has_directory, calls, shards_, manifest, saveVars, result, discoverVars>>

IterationFailed ==
  /\ pc = "iterate" /\ Present \subseteq visited
  /\ ec
  /\ Returns("error")
  /\ UNCHANGED shards_

\* std::sort by name: the first of those left.
First(f) == f \in files /\ \A g \in files : f <= g

WholeFile(f) ==
  [path |-> [file |-> f, base |-> "root"], offset |-> 0, length |-> directory[f].size]

Stat(f) ==
  /\ pc = "stat" /\ First(f) /\ f \in Present
  /\ files' = files \ {f}
  /\ set' = IF directory[f].size = 0 THEN set ELSE Append(set, WholeFile(f))
  /\ UNCHANGED <<has_directory, calls, shards_, manifest, saveVars, pc, result, directory,
                 visited, ec>>

StatFails ==
  /\ pc = "stat" /\ \E f \in files : First(f) /\ f \notin Present
  /\ Returns("error")
  /\ UNCHANGED shards_

EndDiscover ==
  /\ pc = "stat" /\ files = {}
  /\ shards_' = set
  /\ Returns("ok")

\* Another process removes a file.
Unlink(f) ==
  /\ pc \in {"iterate", "stat"} /\ f \in Present
  /\ directory' = [directory EXCEPT ![f].kind = "gone"]
  /\ UNCHANGED <<has_directory, calls, shards_, manifest, saveVars, pc, result, visited, ec,
                 files, set>>

-----------------------------------------------------------------------------
Next ==
  \/ \E shard \in Added : Add(shard)
  \/ Load \/ LoadFails
  \/ BeginSave \/ SaveCannotOpen \/ WriteLine \/ PathRejected \/ CheckStream
  \/ Flush \/ Close \/ Crash
  \/ BeginDiscover \/ DiscoverFails \/ EndIteration \/ IterationFailed \/ StatFails \/ EndDiscover
  \/ \E f \in Files : Visit(f) \/ Stat(f) \/ Unlink(f)

Spec == Init /\ [][Next]_vars

-----------------------------------------------------------------------------
(* Every variable keeps its type; what is on disk while a save is under    *)
(* way is never longer than what was inserted.                             *)
TypeOK ==
  /\ has_directory \in BOOLEAN
  /\ shards_ \in Seq(ShardType) /\ saved \in Seq(ShardType) /\ set \in Seq(ShardType)
  /\ manifest \in Seq(LineType) /\ text \in Seq(LineType)
  /\ pc \in {"lines", "close"} => Len(manifest) <= Len(text)
  /\ pc \in {"idle", "lines", "close", "iterate", "stat"}
  /\ bad \in BOOLEAN /\ ec \in BOOLEAN
  /\ save_result \in {"never", "none", "ok", "error"}
  /\ result \in {"none", "ok", "error"}
  /\ directory \in [Files -> EntryType]
  /\ visited \subseteq Files /\ files \subseteq Files

Sound(shard) ==
  /\ {p \in 0 .. Modulus - 1 : contains(shard, p)}
       = shard.offset .. shard.offset + shard.length - 1
  /\ shard.length > 0
  /\ shard.offset % Alignment = 0

(* Whatever is in the manifest, the shards load accepts can be read with   *)
(* O_DIRECT and none wraps around: `contains' holds for exactly the bytes  *)
(* its offset and length say, and so end() is past them.                   *)
LoadedSound ==
  Loads(manifest) => \A i \in DOMAIN Loaded(manifest) : Sound(Loaded(manifest)[i])

\* Paths that mean the same before save and after load; see README.md for the
\* two that do not.
Plain(shard) == shard.path.file \notin HashFiles \cup OpaqueFiles

SameRange(a, b) ==
  a.path.file = b.path.file /\ a.offset = b.offset /\ a.length = b.length

Complete(list) == <<Header>> \o [i \in DOMAIN list |-> LineOf(list[i])]

(* A manifest that save has written completely loads as the list it was    *)
(* saved from: the same ranges of the same files, in the same order, with  *)
(* the paths made relative on the way out and resolved on the way in.      *)
RoundTrip ==
  /\ save_result # "never" /\ manifest = Complete(saved)
  /\ \A i \in DOMAIN saved : Plain(saved[i]) /\ Sound(saved[i])
  => /\ Loads(manifest) /\ Len(Loaded(manifest)) = Len(saved)
     /\ \A i \in DOMAIN saved : SameRange(Loaded(manifest)[i], saved[i])

(* A manifest that save left unfinished (an error in the middle, a failed  *)
(* write, a crash) is refused by load or describes the beginning of the    *)
(* list: never a shard of the manifest it replaced, never one that was not *)
(* saved; only the last length may have lost digits.                       *)
UnfinishedIsPrefix ==
  /\ save_result # "never" /\ Loads(manifest)
  /\ \A i \in DOMAIN saved : Plain(saved[i])
  => /\ Len(Loaded(manifest)) <= Len(saved)
     /\ \A i \in DOMAIN Loaded(manifest) :
          LET shard == Loaded(manifest)[i]
          IN  /\ SameRange([shard EXCEPT !.length = saved[i].length], saved[i])
              /\ shard.length <= saved[i].length
              /\ i < Len(Loaded(manifest)) => shard.length = saved[i].length

(* discover returns ok with one shard for each visible regular file that   *)
(* is not empty, in the order of their names, each the whole file; a file  *)
(* removed meanwhile is the only other it may name.                        *)
DiscoverExact ==
  [][pc = "stat" /\ pc' = "idle" /\ result' = "ok" =>
       /\ \A f \in Present : ~directory[f].hidden /\ directory[f].kind = "file"
                              /\ directory[f].size > 0
                              => \E i \in DOMAIN shards_' : shards_'[i] = WholeFile(f)
       /\ \A i \in DOMAIN shards_' :
            LET f == shards_'[i].path.file
            IN  /\ ~directory[f].hidden /\ directory[f].kind \in {"file", "gone"}
                /\ i > 1 => shards_'[i - 1].path.file < f]_vars

(* README.md says that dsio "reports every failure as a value": when save  *)
(* returns ok, the manifest holds the list.                                *)
SaveOkMeansSaved ==
  pc = "idle" /\ save_result = "ok" => manifest = Complete(saved)
=============================================================================
