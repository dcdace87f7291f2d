---------------------------- MODULE CheckpointPaths ----------------------------
(***************************************************************************)
(* The names of a distributed checkpoint's objects (dcp/s3_file_system.py, *)
(* _s3dataset_common.py): the path a user gives, joined with the names of  *)
(* the files, parsed into bucket and key, escaped for the copy of a rename,*)
(* and put together again by the DCP constructor (s3reader/constructor.py),*)
(* which knows the ranges of a file by its URI.  A file is found only if   *)
(* all of them agree.                                                      *)
(*                                                                         *)
(* A string is the sequence of its slashes and of what is between them.    *)
(* Which names are joined in which order is torch's FileSystemWriter and   *)
(* FileSystemReader.                                                       *)
(***************************************************************************)
EXTENDS Integers, Sequences, SequencesExt, FiniteSetsExt

CONSTANTS
  Paths,     \* the paths of checkpoints: [text, isPath], isPath for a pathlib.Path
  Files,     \* the names of a rank's data file, with a strategy's prefix
  Bucket     \* the bucket there is

VARIABLES
  path,      \* of the S3StorageWriter
  loadPath,  \* of the S3StorageReader
  file,      \* of the rank: one of Files
  stage,     \* "save", "commit", "load", "open", or how it ended
  objects,   \* the objects in S3, by bucket and key
  ranges,    \* _item_ranges_by_file: the URIs that have ranges
  reader     \* what the constructor made of the data file: "sequential", "dcp"

pvars == <<path, loadPath, file, stage, objects, ranges, reader>>

Scheme == <<"s3:", "/", "/">>
Invalid == [bucket |-> "", key |-> <<>>]
Slashes(s) == {i \in 1..Len(s) : s[i] = "/"}

(* Between two slashes there is at most one segment.                       *)
IsName(s) ==
  s \in Seq(ToSet(s)) \ {<<>>} /\ \A i \in 1..(Len(s) - 1) : "/" \in {s[i], s[i + 1]}

(* A path is not made of slashes alone, and a data file is not called as   *)
(* the metadata is.  "a%2520b" is as far as Quote goes.                    *)
ConstantsAssumption ==
  /\ \A p \in Paths : /\ p.isPath \in BOOLEAN /\ IsName(p.text)
                      /\ ToSet(p.text) # {"/"} /\ "a%2520b" \notin ToSet(p.text)
  /\ \A f \in Files : IsName(f) /\ Last(f) \notin {".metadata", ".metadata.tmp"}

(* str() of a pathlib.Path: no empty segments. *)
Normalised(s) ==
  LET kept == {i \in 1..Len(s) : s[i] # "/" \/ (i < Len(s) /\ s[i + 1] # "/")}
  IN  [k \in 1..Cardinality(kept) |->
         s[CHOOSE i \in kept : Cardinality({j \in kept : j <= i}) = k]]

(* os.fspath, _path_or_str_to_str *)
Text(p) == IF p.isPath THEN Normalised(p.text) ELSE p.text

(* os.path.join *)
Join(text, suffix) ==
  IF suffix[1] = "/" THEN suffix
  ELSE text \o (IF Last(text) = "/" THEN <<>> ELSE <<"/">>) \o suffix

(* Faulty variant: always with a slash. *)
ConcatPathWithSlash(p, suffix) == Text(p) \o <<"/">> \o suffix

(* concat_path *)
ConcatPath(p, suffix) == Join(Text(p), suffix)

(* parse_s3_uri *)
ParseS3Uri(uri) ==
  IF ~IsPrefix(Scheme, uri) \/ Len(uri) = 3 \/ uri[4] = "/" THEN Invalid
  ELSE LET ends == {i \in Slashes(uri) : i > 4}
       IN  [bucket |-> uri[4],
            key |-> IF ends = {} THEN <<>> ELSE SubSeq(uri, Min(ends) + 1, Len(uri))]

(* The object of a file, as create_stream and rename find it. *)
Object(p, suffix) == ParseS3Uri(ConcatPath(p, suffix))
Storable(o) == o.bucket = Bucket /\ o.key # <<>>

(* validate_checkpoint_id *)
ValidateCheckpointId(p) == p.isPath \/ ParseS3Uri(p.text) # Invalid

(* urllib.parse.quote of a segment, and what S3 makes of a copy's source.  *)
Quote(t) == CASE t = "a b" -> "a%20b" [] t = "a%20b" -> "a%2520b" [] OTHER -> t
Unquote(t) == CASE t = "a%20b" -> "a b" [] t = "a%2520b" -> "a%20b" [] OTHER -> t

(* Faulty variant: the key as it is. *)
EscapePathNot(key) == key

(* _escape_path, segment by segment. *)
EscapePath(key) == [i \in 1..Len(key) |-> IF key[i] = "/" THEN "/" ELSE Quote(key[i])]

CopySource(key) == [i \in 1..Len(key) |-> Unquote(key[i])]

Tmp == <<".metadata.tmp">>
Metadata == <<".metadata">>

Init ==
  /\ path \in Paths /\ loadPath \in Paths /\ file \in Files
  /\ stage = "save" /\ objects = {} /\ ranges = {} /\ reader = "none"

-----------------------------------------------------------------------------
(* create_stream(.., "wb") of the data file and of the metadata, or a      *)
(* ValueError of parse_s3_uri, or S3's that there is no such bucket.       *)
Save ==
  /\ stage = "save"
  /\ IF Storable(Object(path, file)) /\ Storable(Object(path, Tmp))
     THEN stage' = "commit" /\ objects' = {Object(path, file), Object(path, Tmp)}
     ELSE stage' = "rejected" /\ objects' = objects
  /\ UNCHANGED <<path, loadPath, file, ranges, reader>>

(* rename: a copy, of what S3 finds under the escaped key, and a delete.   *)
Rename ==
  /\ stage = "commit"
  /\ LET old == Object(path, Tmp)
         source == [old EXCEPT !.key = CopySource(EscapePath(@))]
     IN  IF source \in objects
         THEN stage' = "load" /\ objects' = (objects \ {old}) \cup {Object(path, Metadata)}
         ELSE stage' = "not renamed" /\ objects' = objects
  /\ UNCHANGED <<path, loadPath, file, ranges, reader>>

(* The metadata is read, and the ranges of the data file are injected.     *)
Inject ==
  /\ stage = "load"
  /\ IF Object(loadPath, Metadata) \in objects
     THEN stage' = "open" /\ ranges' = {Join(Text(loadPath), file)}
     ELSE stage' = "not found" /\ ranges' = ranges
  /\ UNCHANGED <<path, loadPath, file, objects, reader>>

(* __call__: by the end of the key, then by the URI of bucket and key.     *)
ReaderOf(bucket, key) ==
  IF Last(key) = ".metadata" THEN "sequential"
  ELSE IF Scheme \o <<bucket, "/">> \o key \in ranges THEN "dcp"
  ELSE "none"

(* create_stream(.., "rb") of the data file.                               *)
Open ==
  /\ stage = "open"
  /\ LET o == Object(loadPath, file)
     IN  /\ reader' = ReaderOf(o.bucket, o.key)
         /\ stage' = IF o \in objects THEN "opened" ELSE "not found"
  /\ UNCHANGED <<path, loadPath, file, objects, ranges>>

Next == Save \/ Rename \/ Inject \/ Open

Spec == Init /\ [][Next]_pvars
-----------------------------------------------------------------------------
(* One path, spelt with or without the slash at the end.                   *)
SamePlace ==
  \/ path.text = loadPath.text
  \/ \E t \in {path.text, loadPath.text} :
       Last(t) # "/" /\ {path.text, loadPath.text} = {t, t \o <<"/">>}

(* A path that is valid, as a string, in a bucket that there is, and a     *)
(* relative prefix are enough: the save is not rejected, whatever has to be*)
(* escaped is found by the rename, and the checkpoint is found, with the   *)
(* ranges of its files, by everyone who spells its path with or without    *)
(* the slash at the end.                                                   *)
SavedIsFound ==
  /\ /\ ValidateCheckpointId(path) /\ ~path.isPath /\ ParseS3Uri(path.text).bucket = Bucket
     /\ file[1] # "/"
     => stage # "rejected"
  /\ stage # "not renamed"
  /\ SamePlace /\ ~loadPath.isPath => stage # "not found"
  /\ stage = "opened" => reader = "dcp"
=============================================================================
