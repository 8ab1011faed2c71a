-------------------------------- MODULE Vfs --------------------------------
(***************************************************************************)
(* The overlay file system of src/files: open editor buffers, a cache of   *)
(* disk reads, disk search paths and the embedded standard library.  A     *)
(* text is an opaque member of Texts.  A path is a member of Paths; what   *)
(* the C++ code does with path strings (join, parent_path,                 *)
(* lexically_normal, weakly_canonical) is given by constant operators, so  *)
(* an instance may have symbolic links and unnormalised spellings.         *)
(***************************************************************************)
EXTENDS Naturals, Sequences

CONSTANTS
  Paths,           \* every string used as a path, a resolution key or a spec
  Specs,           \* the strings an import statement may name
  Roots,           \* directories that can become search paths
  Texts,           \* file contents
  NoText, NoPath,  \* std::nullopt for a text and for a key
  Embedded,        \* the embedded libraries: spec -> text
  AllowDiskReads,  \* Vfs::AllowDiskReads
  Beside(_, _),    \* parent_path(importer) / spec, or NoPath without a parent
  Under(_, _),     \* root / spec
  Normal(_),       \* lexically_normal
  Canonical(_)     \* weakly_canonical: follows symbolic links

ASSUME VfsAssumption ==
  /\ Specs \subseteq Paths
  /\ NoPath \notin Paths /\ NoText \notin Texts
  /\ DOMAIN Embedded \subseteq Specs
  /\ \A s \in DOMAIN Embedded : Embedded[s] \in Texts
  /\ AllowDiskReads \in BOOLEAN
  /\ \A p \in Paths : /\ Normal(p) \in Paths /\ Canonical(p) \in Paths
                     /\ Canonical(Canonical(p)) = Canonical(p)
  /\ \A s \in Specs, p \in Paths : Beside(p, s) \in Paths \cup {NoPath}
  /\ \A s \in Specs, r \in Roots : Under(r, s) \in Paths

VARIABLES
  buffers,      \* Vfs::Buffers
  disk,         \* files by canonical path: not a variable of the program
  diskCache,    \* Vfs::Disk, the reads kept so far
  searchPaths,  \* Vfs::SearchPaths
  unnotified    \* files written on disk whose change was not yet reported

vfsVars == <<buffers, disk, diskCache, searchPaths, unnotified>>

Overlay == [Paths -> Texts \cup {NoText}]

(***************************************************************************)
(* Reading.                                                                *)
(***************************************************************************)

\* The buffer that answers for key p, looked up as given and then normalised.
Buffered(p) ==
  IF buffers[p] # NoText THEN p
  ELSE IF buffers[Normal(p)] # NoText THEN Normal(p) ELSE NoPath

\* The canonical key of a regular file at p, or NoPath.
TryDisk(p) ==
  IF AllowDiskReads /\ disk[Canonical(p)] # NoText THEN Canonical(p) ELSE NoPath

\* The text a successful TryDisk hands out, and the cache it leaves behind.
DiskText(key) == IF diskCache[key] # NoText THEN diskCache[key] ELSE disk[key]
Cached(key)   == [diskCache EXCEPT ![key] = DiskText(key)]

\* Candidate places for a spec after the buffer of that very name, in order.
Places(s, importer) ==
  (IF Beside(importer, s) = NoPath THEN <<>> ELSE <<Beside(importer, s)>>)
    \o [i \in DOMAIN searchPaths |-> Under(searchPaths[i], s)]

\* Each place is asked for a buffer first, then for a file.
AtPlace(p) == IF Buffered(p) # NoPath THEN Buffered(p) ELSE TryDisk(p)

FirstPlace(s, importer) ==
  LET places == Places(s, importer)
      hits   == {i \in DOMAIN places : AtPlace(places[i]) # NoPath}
  IN  IF hits = {} THEN NoPath
      ELSE places[CHOOSE i \in hits : \A j \in hits : i <= j]

\* Vfs::Resolve: the key only, which is all the session keeps of the answer.
Locate(s, importer) ==
  LET place == FirstPlace(s, importer) IN
  IF Buffered(s) # NoPath THEN Buffered(s)
  ELSE IF place # NoPath THEN AtPlace(place)
  ELSE IF s \in DOMAIN Embedded THEN s ELSE NoPath

\* A place answered by the disk leaves its text in the cache.
CacheAfterLocate(s, importer) ==
  LET place == FirstPlace(s, importer) IN
  IF Buffered(s) = NoPath /\ place # NoPath /\ Buffered(place) = NoPath
  THEN Cached(TryDisk(place)) ELSE diskCache

\* Resolved::Text: the text of the layer that answered, as Resolve returns it.
LocatedText(s, importer) ==
  LET place == FirstPlace(s, importer) IN
  IF Buffered(s) # NoPath THEN buffers[Buffered(s)]
  ELSE IF place = NoPath
       THEN IF s \in DOMAIN Embedded THEN Embedded[s] ELSE NoText
  ELSE IF Buffered(place) # NoPath THEN buffers[Buffered(place)]
  ELSE DiskText(TryDisk(place))

\* Mutant: the disk cache answers before an open buffer.
ReadDiskFirst(p) ==
  IF diskCache[p] # NoText THEN diskCache[p]
  ELSE IF buffers[p] # NoText THEN buffers[p]
  ELSE IF p \in DOMAIN Embedded THEN Embedded[p] ELSE NoText

\* Vfs::Read.
ReadText(p) ==
  IF buffers[p] # NoText THEN buffers[p]
  ELSE IF diskCache[p] # NoText THEN diskCache[p]
  ELSE IF p \in DOMAIN Embedded THEN Embedded[p]
  ELSE IF TryDisk(p) # NoPath THEN DiskText(TryDisk(p)) ELSE NoText

CacheAfterRead(p) ==
  IF /\ buffers[p] = NoText /\ diskCache[p] = NoText
     /\ p \notin DOMAIN Embedded /\ TryDisk(p) # NoPath
  THEN Cached(TryDisk(p)) ELSE diskCache

(***************************************************************************)
(* Writing.  Each operator says what one call does to the variables above. *)
(***************************************************************************)

VfsInit ==
  /\ buffers = [p \in Paths |-> NoText]
  /\ diskCache = [p \in Paths |-> NoText]
  /\ searchPaths = <<>>
  /\ unnotified = {}

VfsSetBuffer(p, t) ==
  /\ buffers' = [buffers EXCEPT ![p] = t]
  /\ UNCHANGED <<disk, diskCache, searchPaths, unnotified>>

VfsClearBuffer(p) ==
  /\ buffers' = [buffers EXCEPT ![p] = NoText]
  /\ UNCHANGED <<disk, diskCache, searchPaths, unnotified>>

\* Mutant: a notification that keeps the cached read.
VfsForgetNothing(p) ==
  /\ unnotified' = unnotified \ {Canonical(p)}
  /\ UNCHANGED <<buffers, disk, diskCache, searchPaths>>

\* Vfs::Forget, called for a notification: the cached read of this key goes.
VfsForget(p) ==
  /\ diskCache' = [diskCache EXCEPT ![p] = NoText]
  /\ unnotified' = unnotified \ {Canonical(p)}
  /\ UNCHANGED <<buffers, disk, searchPaths>>

VfsAddSearchPath(r) ==
  /\ searchPaths' = Append(searchPaths, r)
  /\ UNCHANGED <<buffers, disk, diskCache, unnotified>>

\* Another program writes, creates or (t = NoText) deletes a file.
DiskWrite(p, t) ==
  LET file == Canonical(p) IN
  /\ disk[file] # t
  /\ disk' = [disk EXCEPT ![file] = t]
  /\ unnotified' = unnotified \cup {file}
  /\ UNCHANGED <<buffers, diskCache, searchPaths>>

\* Vfs::Eject copies an embedded library below a workspace directory; the
\* Vfs itself keeps nothing of it, so the new file is one more disk change.
Eject(s, workspace) ==
  /\ s \in DOMAIN Embedded
  /\ DiskWrite(Under(workspace, s), Embedded[s])
=============================================================================
