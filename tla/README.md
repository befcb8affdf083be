# Verification of IFS, the Installable File System

TLA+ models of the file systems in this repository, the runs of the TLC model
checker over small instances of them, and theorems about them that the TLA+
proof system checks for every value of the parameters.

Source paths below are those of the repository (`src/FWFS/FileSystem.cpp` and so
on); `PROJECT.json` maps every definition of the models to the lines it stands
for, with the checkout's prefix.

## 1. The system

IFS is a library for microcontrollers (and for tests on a host). An application
talks to an `IFileSystem`, a table of calls in the style of SPIFFS: paths or
small integer handles in, an error code or a count out. The library is not
re-entrant and has no locks and no threads; every call runs to completion in
its caller. What is hard is not concurrency within it but *protocols*: long sequences
of legal calls through several layers that each keep tables (descriptors, hidden
files, directory objects), calls that fail half way, calls that interleave on
several handles and enumerations at the same time, and loss of power. On a host there
is concurrency as well: other programs change files between any two calls that the
library makes of the operating system.

### Components

**Firmware file system (FWFS)**: `src/FWFS/FileSystem.cpp`.
State: a read-only image in a partition (named objects with child tables; data
objects; volume index objects), the `mounted` flag, a fixed array of
`FWFS_MAX_FDS` descriptors (object, data size, cursor, or the file system and
handle behind a mount point), a table of volumes whose file systems the object
owns, and `FileDir` objects on the heap. Operations: mount, setVolume, open,
close, read, lseek, eof, tell, stat, opendir/readdir/rewinddir/closedir, the
attribute calls, and the writing calls, which are refused within the image and
passed on behind a mount point. Interacts with: the partition (each header read
may fail) and the file systems that are mounted in it. Correct when: a handle is
a position in one byte string, whatever number of data objects the string is
cut into; descriptors and the handles behind mount points are neither lost nor
leaked; no pointer outlives its file system; enumerations are complete.

**Hybrid file system (HYFS)**: `src/HYFS/FileSystem.cpp`.
State: an FWFS, a writeable file system (FFS: SPIFFS or LittleFS), and
`hiddenFwFiles`, a cache of the firmware files that the FFS has a file for.
Operations: those of `IFileSystem`; open for writing copies the firmware file to
the FFS, remove reveals the firmware file, enumeration joins both layers, a call
on a handle goes to the layer that the number of the handle belongs to.
Correct when: the two layers are one store of files to an application; a
firmware file marked read-only is never replaced; each file is listed once; a
call that fails leaves nothing open and nothing half made.

**FWFS object format**: `src/include/IFS/FWFS/Object.h`. Types, sizes in 1, 2 or 3
bytes, references of 1 to 4 bytes to other objects, child tables. Correct when: what
the builder writes is what the file system reads, at every size and offset.

**Archive stream**: `src/FWFS/ArchiveStream.cpp`. Makes an image of a directory
tree of another file system, as a stream. State: the state machine, a stack of 16
directory levels, the current path, the pending block encoder. Correct when: the
stream is a sound image (every reference points back, sizes agree, one end
marker), `reset()` starts over, and an error never looks like success.

**File copier**: `src/FileCopier.cpp`. Recursive copy with an error handler that
may ignore errors.

**Image builder**: `tools/fsbuild/*.py`. State: a tree of objects, each with its
children; the file being written. For each entry of a configuration it adds a file,
a directory with all below it, or a mount point; rules add, change and remove the
attributes of each; the tree is then written, what is referred to first. Correct
when: FWFS mounts the image and finds in it what the configuration asks for, with the
attributes that the rules decide; and entries that are at odds are refused.

**Host file system**: `src/Arch/Host/FileSystem.cpp`. State: a root path and whether it
is mounted; descriptors, `DIR` pointers and extended attributes are the operating
system's. It translates flags, errors, paths and attributes; `stat()`, `readdir()`,
`setxattr()`, `getxattr()` and `fenumxattr()` are several calls of the host each.
Correct when: an error of the host is told, what it has opened it closes, and what it
tells of a file is what was stored.

**Wrappers**: `FileSystem`, `File`, `Directory`, `FsBase`: the calls in the terms
of strings and streams. State: the handle that a `File` owns; the `DIR`, the index and
the counts of a `Directory`. `getSize`, `truncate`, `setContent`, `getContent`,
`readContent`, `makedirs` and `setacl` are several calls of a file system each. Correct
when: whatever one of these fails with, the file opened for it is closed; what is
read is what the file holds; what is said to be done is done.

**Storage device on a file**: `src/FileDevice.cpp`. Owns a handle, of whose file it
reads, writes and erases ranges. Correct when nothing outside a range is touched.

**GDB file system**: an adapter to a debugger.

**Names, attributes, access, errors, helpers**: value types and their text.

### Behaviours that are hard to test

`PROJECT.json` lists each with its line. The main groups are:

- unsigned arithmetic at the boundaries of data objects (`read()`);
- tables of fixed size: every failing path must give its entry back, and what
  happens when the table is full;
- the ownership of handles and file systems across mount points;
- the cache of hidden files, which each call that makes a file appear or
  disappear has to keep right, between any two steps of an enumeration;
- operations in several steps (copying up, renaming), each of which may fail,
  and between any two of which power may be lost;
- the boundary between two ranges of handles;
- the layout of an image: what one program writes and another reads, at the
  boundaries of the widths of sizes and offsets; and chains of rules, of which each
  may undo what another has done;
- calls that are several calls of the host: each may fail, and between any two another
  program may create, change or remove the file;
- positions from 2 GB on, which a signed offset takes for errors.

## 2. The modules

| Module | Models |
| --- | --- |
| `FwfsImage` | The image: objects, child tables, data objects, looking up paths. Constant. |
| `Fwfs` | `FWFS::FileSystem`. |
| `ReadStore` | What a read-only store promises: a handle is an object and a position. |
| `FwfsProofs` | Theorems about `Fwfs`. |
| `FlashStore` | What is relied on of the FFS (external). |
| `Hyfs` | `HYFS::FileSystem`, with what it uses of the two layers. |
| `HyfsProofs` | Theorems about `Hyfs`: types, open files, hidden files, enumeration, copying up, and that it implements `Overlay`. |
| `Overlay` | What a hybrid store promises: one store of files, the firmware's until written to. |
| `SourceTree` | A directory tree that something is archived or copied from. Constant. |
| `SourceTreeProofs` | Lemmas about `SourceTree`: what a path leads to, and sequences. |
| `FwfsObject` | The encoding of objects, as written and as read. Constant. |
| `ImageReader` | How `FWFS::FileSystem` finds its way in an image: scan, paths, stat, attributes. Constant. |
| `ImageBuilder` | `fsbuild`, and what it means for an image to be what a configuration asks for. |
| `ImageBuilderProofs` | Theorems about `FwfsObject` and `ImageBuilder`. |
| `ArchiveStream` | `FWFS::ArchiveStream`, and what it means to read the image it makes. |
| `ArchiveStreamProofs` | Theorems about `ArchiveStream`. |
| `FileCopier` | `FileCopier`, with `FsBase::readContent()` and the target file system it writes to. |
| `FileCopierProofs` | Theorems about `FileCopier`. |
| `HostOs` | What is relied on of the operating system (external): names, descriptors, `DIR` pointers, attributes. |
| `HostFs` | `Host::FileSystem`, over `HostOs`. |
| `Wrappers` | `FileSystem`, `File`, `Directory` and `FileDevice`, over `HostFs`, and other programs. |
| `WrappersProofs` | Theorems about `Wrappers`: the owners of descriptors and `DIR` pointers, types, and calls that only ask. |
| `WrappersEffectsProofs` | That calls of `Wrappers` which change something change it as they are asked. |
| `MCFwfs`, `MCHyfs`, `MCArchive`, `MCCopier`, `MCBuilder`, `MCHost` | The small parameters of the runs. |

### Fwfs

| State | In the code |
| --- | --- |
| `mounted` | `flags[Flag::mounted]` |
| `fds` | `fileDescriptors[]`: free, a file (object, data size, cursor) or a link (file system and handle) |
| `volumes` | `volumes[].fileSystem` |
| `dirs` | `FileDir` objects: their place in a child table, or a link |
| `call` | the local variables of the `read()` in progress |
| `ret` | the result of the last call |
| `live`, `inner` | outside: the file systems not yet deleted, and their open handles |
| `held`, `listed` | history: the handles applications hold, the names each enumeration gave |

Every call is an action of the call's name. `read()` alone is several steps: its
loop visits the child table from its start, and each header and each piece of
data may fail to be read. No other call runs until it returns (`Next`). The
arithmetic of `read()` is that of the code: `ext.length - offset` is unsigned,
so `Minus` is modulo `WordSize`. Branches that have no effect on the state
(`eof`, `tell`, `fstat`, attributes) are one action, `Query`, that changes the
result only. A byte of a file is its address on the media, so that "the right
bytes" can be stated without inventing data.

What is *assumed*: the image is sound (child tables of the right length; path
names resolve to objects). `mount()`'s scan fails only when the media does, and a second
`mount()` that fails leaves the root as it was (the code assigns `odRoot` while it scans).

### Hyfs

The model is that of the names of one directory. Data is a sequence of blocks of
the size of `open()`'s copy buffer (512 bytes).

| State | In the code |
| --- | --- |
| `mounted` | `mounted` |
| `ffs`, `fh` | the FFS: what it holds persistently, and its handles (`FlashStore`) |
| `slots` | the descriptors of the firmware layer |
| `hidden` | `hiddenFwFiles` |
| `dirs` | `FileDir` objects: the layer being enumerated, what it gave so far |
| `call` | the local variables of `open()` while it copies, of `rename()` after its `open()` |
| `held`, `listed`, `steady` | history: handles, names listed, whether a change of names, a `remove()` or `format()` that failed, or an error disturbed the enumeration |

Each call is one action, except that `open()` copies a block per step
(`CopyStep`) and `rename()` is an open (which may copy) and then `RenameStep`;
`Crash` may come between any two steps and keeps the contents of the FFS only.
`Allowed` says which events the environment makes use of: `WriteFault` (a write
or a creation fails), `ShortWrite` (a write takes less than it was given, which
the code does not look at), `ReadFault` (the firmware cannot be read),
`DirFault` (a layer's enumeration fails), `RemoveFault` (the FFS does not remove a file
that it has, or does not format), `CleanupFault` (`fremove()` of the part written, after a
copy has failed, fails as well: nobody looks), `Crash`, and the calls `rename()` and
`fremove()`. A `remove()` or `format()` that fails has revealed the firmware files all the
same.

What is *assumed* of the FFS, a library: a handle follows its file when it is
renamed, is only good for closing once the file is removed, and never points
beyond the data; formatting leaves open handles good for closing only. `stat()`
in either layer, called by `hideFWFile()` and `remove()`, does not fail. Handles
below zero are passed on to the FWFS by `GET_FS` and refused there: they are not
given to the model's calls.

### ArchiveStream

| State | In the code |
| --- | --- |
| `state`, `level`, `path`, `dirs` | `state`, `level`, `currentPath`, `directories[]` |
| `encoder`, `dataBlock` | `encoder` (the sizes of the blocks it has still to give), the size of `dataBlock` |
| `source`, `streamOffset`, `queuedSize` | what is left of the block queued, and the counters of the same names |
| `phase` | where the call of `queueNextBlock()` has got to |
| `opened` | outside: directories and files of the source that are open |
| `out`, `produced`, `failed` | history: the blocks of the stream, their total size, the calls that failed |

Whoever reads the stream has four actions: `FillBuffers` begins the queueing of a
block when the one before has been used up, `Read` uses it up, `ReadFails` gets nothing,
as the content of a file cannot be read (the block stays queued, and a later `Read` may
go on with it), and `Reset` starts over. Queueing a block may enumerate, skip entries and descend several levels; each
call to the source is a step, as each may fail, and nothing else runs until the
block is queued. An object is its kind, its references and its size: references
are offsets in the stream, recorded when a block is queued, and `ReferencesResolve`
and `RoundTrip` read the stream from its end, as a mount does. A custom encoder
(`createEncoder()` overridden, as in the archive test) gives any sequence of block
sizes in `Encodings`.

Content that is stored inline is read as its object is made, and the result of that
is not looked at: a failure makes an object of the size that was asked for, with other bytes.

What is *assumed*: the source does not change while it is archived; the root has been looked at through
a handle, so that it is never taken for a mount point.

### FileCopier

| State | In the code |
| --- | --- |
| `stack` | the calls of `copyDir()`: its `Directory`, its list of directories still to copy |
| `job` | the `copyFile()` or `copyAttributes()` in progress |
| `result` | what the outermost call returned |
| `dst`, `dstAttr` | the target file system, and whether it has no metadata |
| `told`, `declined`, `silent` | history: errors the handler was told of, those it declined to go on after, errors it was not told of |

Each call of either file system that can fail is a step, and so is each answer of the
error handler, which may be different every time. The target file system is
modelled by what the copier relies on (external): directories have to exist before
what is in them, `mkdir()` refuses what exists. Without metadata it refuses every
attribute. Time stamps are attributes like any other, also that of a directory which
`copyDir()` sets right after `mkdir()` without looking at the result.

### FwfsObject, ImageReader and ImageBuilder

`FwfsObject` has both sides of the encoding as operators on sequences of bytes: the
builder's `Header` and `RefHeader`, and the file system's `TypeOf`, `ContentSize`,
`GetRef`. `ImageReader` is written over objects *at offsets*: `Scanned` is the scan of
`mount()`, `Children` goes through a child table as `readChildObjectHeader()` and
`next()` do, adding sizes to offsets; so a header with the wrong size leads to an
offset where nothing is. `Fwfs` abstracts from all this (its image is a constant whose
child tables are sequences); these modules say that the images the builder makes are
of that kind.

| State | In the code |
| --- | --- |
| `config` | the configuration: entries of `source` and `mountpoints`, rules |
| `objs` | every `Object`, by number: its type, parent, name, children, value and size |
| `todo` | the calls of `createFsObject()` still to come: the loops of the main part and of `addDirectory()` |
| `phase`, `image` | whether the build has ended, and what `writeToFile()` has written |

Each call of `createFsObject()` is a step, with the directories it makes on the way and
all the rules for what it adds. `os.listdir()` lists a directory in any order, so
`AddDirectory` puts its entries in any order. `WriteImage` is the whole of
`writeToFile()`. A mask is the set of the paths that it matches; data is a source
file, compressed or not, with a size; the value of an attribute is what it means, and
its size that of its bytes.

The properties compare the image, as read by `ImageReader`, with the configuration
and the source tree, and not with `objs` (`stat()` without the flag and the original size that `checkStat()`
derives from the compression): `Claims` says which entries put something
at a path, `Decided` what the last rule says.

What is *assumed*: a source file can be read (otherwise there is an exception and no image);
names have one byte per character (`Readable`; see section 4); only a directory is the source of the root; a path is a sequence of names, and targets have
no leading `/`; masks match paths, which `fnmatch` decides.

### HostOs, HostFs and Wrappers

Three layers, as in the code. `HostOs` has an operator for each call of the operating
system, which gives the *set of its outcomes*: the state after it, the result or a
negated `errno`, and whether it failed for a reason that lies in the media
(`Unreliable` says which calls may). `HostFs` translates: a method that makes one call
of the host is an operator of the same kind, with the check for being mounted, the path
resolved, the error moved below -1000; one that makes several is an action with a
disjunct for each. `Wrappers` has the actions of an application, and those of other
programs.

| State | In the code |
| --- | --- |
| `os` | outside: names, files and directories (content, attributes, time), descriptors, `DIR` pointers |
| `rooted`, `mounted` | `rootpath` (whether there is one), `mounted` |
| `call` | the local variables of the method in progress, and where it is |
| `files` | `File::handle` |
| `dirs` | `Directory`: `dir`, `name`, `currentIndex`, `maxIndex`, `totalSize`; what it gave so far |
| `device` | `FileDevice`: `file`, `size` |
| `mine` | outside: handles that the application took by `release()` |
| `uses`, `steady` | which calls the application makes; history: whether a directory was left alone since it was rewound, and opened |

`call.fault` and `call.foreign` are history: whether a call of the host failed, and
whether another program changed something, since the method began. A method that makes one
call, or calls that concern its own handle only, is one action (`File::open()` closes
the old handle and opens the new one; `getSize()` by handle is three seeks). `Foreign`
is another program, between any two calls of the host: it creates or removes a file,
changes its content or its permissions, or gives it an attribute that the library does
not know. A removed file lives on while it is open, as on a host. A path is the sequence
of its parts, so that a leading and a trailing separator, which `makedirs()` and
`resolvePath()` look at, can be told; `OffsetRange` blocks stand for 2 GB, from where
on a position comes out negative (`ToOffset`), and `MaxString` for the limit of
`getContent()`.

What is *assumed* of the host: it lists a directory in an order that does not change
while the directory does not, and may still give an entry that was removed since; it stores
an attribute through any open descriptor, whatever the file was opened for. The size of a directory counts
as 0. A file has up to `MaxBlocks` blocks: a write is short there, and `ftruncate()` fails
beyond (`EFBIG`). Paths outside `Paths` cannot be made (`EACCES`). A device may be on a file
open for appending, where its positions mean nothing: `EffectsAsAsked` says nothing of that one.

## 3. The runs

| Run | Checks | Shows |
| --- | --- | --- |
| `fwfs_read` | `TypeOK`, `StoreSpec`, `ReadReturns` | With one data object per file, and the media failing at any step, `Fwfs` implements `ReadStore`; reads end. |
| `fwfs_links` | `DescriptorsOwned`, `InnerHandlesOwned`, `ListingInOrder`, `ReadFromFirstObject` | Ownership through opens, mount points and volumes that are replaced, used or not; enumeration past attribute objects; reading several data objects from the first on. |
| `fwfs_split` | `ReadReturnsContent` violated | Finding 1. |
| `hyfs_overlay` | `TypeOK`, `NothingLeaks`, `OverlaySpec`, `CopyUpComplete` | With a firmware descriptor to spare and readable firmware, `Hyfs` implements `Overlay`, also when writes, removals and formats fail. |
| `hyfs_listing` | `NothingLeaks`, `HiddenAreShadowed`, `ListingExact` | Two enumerations at once, with opens, removals, formatting, crashes and faults of every call of the layers but `stat()` in between. |
| `hyfs_reveal` | `ListingExact` violated | Finding 2. |
| `hyfs_pool` | `ReadOnlyKept` violated | Finding 3. |
| `archive_stream` | `TypeOK`, `ReferencesResolve`, `DirectoriesTracked`, `SuccessIsMountable`, `RoundTrip`, `Ends` | Whatever calls fail, reading the content of files included, and whenever the stream is reset at the levels 0 and 1: it comes to its end, or stays at a file whose content cannot be read; its references resolve, the path and what is open are those of the levels it is in; undisturbed, its image reads as the tree. |
| `archive_reset` | `StartsAtRoot` violated | Finding 4. |
| `builder_image` | `TypeOK`, `FailsOnConflict`, `ContentsAsConfigured`, `AttributesAsRuled`, `ChildrenAreDistinct` | Whatever the entries, the rules and the order of listings, the image mounts, its data does not overlap, and it reads as the configuration says; conflicts are refused, and nothing else. |
| `copier_tree` | `TypeOK`, `EveryLossIsTold`, `OneDirectoryAtATime`, `OthersKept`, `RefusalStops`, `Ends` | Whatever fails and whatever the handler says, a copy ends, touches nothing else, obeys a refusal and, if it succeeds, has reported what it lacks. |
| `host_calls` | `TypeOK`, `HandlesOwned`, `ContentAsStored`, `EffectsAsAsked`, `ListingAsDirectory`, `AttributesAsSet`, `QueriesChangeNothing`, `CallEnds` | While calls of the host fail and other programs change files: each descriptor has one owner, what is read, listed and told is what the file system holds, what is said to be done is done, queries change nothing, and each call ends. |

**Bounds and why they are enough.** `fwfs_read`: two descriptors (one can be used
while another is in the middle of a file), one file of three bytes between
attributes and one with no data, sizes 0, 2 and 4, so that reads are empty, end
within the file, at its end and beyond it. `fwfs_links`: two descriptors, one
directory object, two volumes, two file systems and three of their handles: the
pool can be full, both volumes can hold a file system, and inner handles can run
out; three data objects of which the second lies before the first on the media.
`hyfs_overlay`: two handles of the FFS, so that two handles of one file, or a
handle and a removal or rename of its file, meet; files of up to two blocks, so
that a failure comes after a part of the copy; three names: a firmware file, a
read-only firmware file, and a name of the FFS alone. Its `MaxHeld < MaxFds`
leaves a firmware descriptor to spare, which finding 3 shows to be needed.
`hyfs_listing`: two directory objects; one block per file, all blocks alike, as a
listing does not depend on content. `archive_stream`: a tree that needs all the
levels of `directories[]`, with an empty directory, an empty, an inline and a large
file, a mount point and a node that the filter does not want; names whose lengths
differ. Resets come at the levels in `ResetLevels`, before the root directory and
within it, where the code's `reset()` is right (finding 4). `copier_tree`: a directory in a directory, a mount
point, a compressed file, a file that the target has already and one that only the
target has; up to `MaxFaults` = 2 failures in a call, so that one error can be
ignored before another is declined, and an error of a directory can meet one of a
file within it. `builder_image`: three sets of entries (a whole tree; a tree beside files
that share a directory; files in directories made on the way) with and without mount
points, one below a file and one below another mount point, and five lists of rules that
set, change and take back each attribute; files of no data, one that does not shrink,
and files on each side of the limits of 1 and 2 bytes, before and after compression;
one of 16 MB, after which offsets take 4 bytes; and five configurations that are to
fail or that the properties do not speak of. Larger trees only add offsets, of which
every width occurs.

`host_calls`: an application that makes every call at once has far too many states, and
most calls do not concern each other. `Scopes` names eleven sets of calls that do, each
with a tree to begin with and the other programs that matter: the content of a file by
name; reading, writing and seeking by handle; the owners of descriptors; devices; names,
below a root that is to be mounted; enumeration of a directory with three entries, one of
which may be removed before it, of one from which another program removes entries, and of one in which
it makes them; a root that cannot be mounted; attributes by name, and by handle. With two and
three entries an enumeration is rewound half way, has something to go on to when an
entry vanishes under it, and may give a new one in the middle or miss it. There are two descriptors, so that a file can be open
while a call opens one of its own, and can find none; one `File` and one `Directory`; two
`DIR` pointers, as a `Directory` opens the new one before it closes the old; files of up to 4
blocks with a buffer of 2, so that reading takes full, partial and empty blocks, and
an erased range does not end with a buffer; positions up to and beyond `OffsetRange` = 4.
Another program acts once in each call: that is a step between two of its calls, or
none, wherever it matters most. A `Directory` that has counted is opened anew once,
as the counts would grow without end.

**Symmetry and views.** File systems and their handles in `fwfs_links`, and the
directory objects in `hyfs_listing`, are only compared for equality, and none is
named in a constant or property: permuting them is sound, and neither run has a
liveness property. The views leave out `ret` alone. No guard reads it, and the
properties of those runs do not, apart from `ReadFromFirstObject`, which speaks of
`ret'` in the step that sets it: TLC checks every step it generates, and the
step's `ret'` is a function of the step, not of the `ret` that the view drops.

**Fairness.** Weak fairness of what runs in a caller's thread, with no lock to
wait for: `ReadReturns` has `WF_vars(ReadStep)`, a `read()` that was called goes on;
`copier_tree`'s `Ends` has `WF_vars(Step)`, a copy that was begun goes on, whatever
the handler answers; `host_calls`'s `CallEnds` has `WF_vars(GoesOn)`, a call that was made goes
on. `GoesOn` leaves out the steps in which the media fails: nothing makes it
fail, so that no call may depend on this to end. `archive_stream`'s `Ends` takes more: that the stream's reader
keeps reading while it gets something (`FillBuffers`, the steps within, `Read`), as the
sender of a response does. It is not assumed that a file whose content could not be read can be
read later, nor anything of `Reset`: the stream comes to its end again and again, or is
started over, or stays where the content cannot be read.

**Deadlock** is checked in all runs but `builder_image`, as a build ends. A media error, a refused handle and a failed
path are results of calls, not ends of the program; a stream that has ended can be
reset, and a copy be followed by another.

## 4. Findings

1. `read()` computes `ext.length - offset` for each data object, without asking
   whether the cursor lies beyond that object. A read that starts in the second
   data object of a file takes its bytes from behind the first one. The object
   format and the README say that data objects are treated as one. Reads that
   start in the first object are right (`ReadFromFirstObject`), and the image
   builder makes one data object per file; the archive stream makes several when it
   has a block encoder, as the archive test's `XorEncoder` does.
2. `fremove()` does not unhide the firmware file.
3. `open()` takes `OutOfFileDescs` for "there is no firmware file", and creates a
   file that replaces a read-only one.
4. The archive stream's `reset()` leaves `currentPath` as it is. After a reset below
   the root, the directory it had got to is archived as the root.

Also seen, without a run of its own:

- `GET_FS` of HYFS compares `handle < FWFS_HANDLE_MAX`, so calls on the last firmware
  descriptor's handle go to the FFS; `include/IFS/FWFS/FileSystem.h:45` has the constant
  as the "Maximum file handle value" (`RoutedToOwner` of `Hyfs` fails).
- The image builder leaves out an access entry that equals the one inherited from any
  directory above, and the reader lets an object inherit from the root only. With a rule
  that gives `/secure*` to `admin`, the builder's listing shows `admin` for a file in
  `/secure`, the image has no entry for it, and `stat()` reports the root's `guest`.
  `AccessAsRuled`, a part of `AttributesAsRuled`, excepts what lies below such a directory,
  and fails without the exception. `findObjectByPath()` has a `@todo` to track entries during traversal.
- The builder's sizes count the characters of names, and their UTF-8 bytes are written:
  an image with a name beyond ASCII cannot be mounted. `example.fwfs:3` sets no
  restriction on the volume's name.
- Directories that the builder makes on the way to a target get no rules. An entry below
  a mount point is built and cannot be reached; one below a file can. A target with a
  leading `/`, such as `/a/b`, makes a directory without a name.

- `setVolume()` deletes the file system it replaces while descriptors and directory
  objects may point to it, and checks nothing, though "file systems can be mounted and
  dismounted at any time" (`src/README.rst:159`). `NoDanglingFileSystem` of `Fwfs` fails in
  three calls, once mounted: set a volume, open a file behind its mount point, set another volume. What
  `fwfs_links` shows of descriptors and inner handles holds nevertheless.
- `remove()` of HYFS reveals the firmware file also when the FFS could not remove its own
  (`hideFWFile()` is called whatever `ffs->remove()` returned), and `format()` forgets all that is hidden
  before it formats, which may fail: an enumeration which that comes into gives the file
  twice. `ListingExact` takes it for a disturbance, like a change of names; the enumerations after it are right.
  `fremove()` of a copy that failed half way may fail: then the part stays, in place of the
  firmware file (`CleanupFault`; `OverlaySpec` is without).
- In HYFS a read error ends the copy-up as if the file had ended (`CopyUpComplete`
  fails with `ReadFault`), and so does a short write go unnoticed; loss of power
  leaves a truncated file that replaces the firmware file. `rename()` onto the name
  of a read-only firmware file replaces it (so `RenameTo` of `hyfs_overlay` has no
  read-only name). An open with `Read | NoFollow` copies up, as the test is for
  flags *equal* to `Read` (`ReadingNeverCopies` fails).
- A media error while FWFS's `open()` adds up data objects gives a handle with a
  short size (`SizeIsTotal` fails when `MediaFaults`).
- The archive stream never enters `State::error`: when the root cannot be opened it
  is `done`, and `isSuccess()` is true of an image without a volume
  (`SuccessIsMountable` excepts this). When the content of a file cannot be read,
  `readMemoryBlock()` gives 0 bytes for as long as it cannot, while `isFinished()` is
  false: a reader that goes by `isFinished()` does not come to an end (`Ends` states it so). The result
  of reading inline content is ignored. The 16 levels of `directories[]` are not
  checked. The length of a name is kept in a `uint8_t` and wraps at 255 characters
  and a separator. With `IncludeMountPoints` a mount point is sent without the
  volume index that a reader of the image needs.
- The copier takes an error of `readdir()` for the end of the directory, and
  `readContent()` does not look at short writes: nobody is told of either
  (`EveryLossIsTold` excepts them). The name of a compressed file on a target without
  metadata may be that of another file, which is then overwritten. A `copyDir()` to where the target has
  a file opens that file to set the directory's attributes, makes no directory, and tells
  nobody (`LossesTold` excludes both).
- A handler that declines to go on after an attribute that could not be set only ends
  the enumeration of attributes: the copy goes on and succeeds, where
  `include/IFS/FileCopier.h:95` says "false to stop" (`RefusalStops` excepts attributes).
- `makedirs()` stops with an error at the first directory that exists, where
  `include/IFS/FileSystem.h:69` has "if they do not already exist", and makes nothing of
  a path that begins with a separator.
- `getContent()` with a buffer writes a terminator behind it when the file just fits.
  `File::getContent()` wants as much as the whole file has from where the cursor is, so that it
  fails unless that is the start, where `include/IFS/File.h:358` has "from current
  position" (`ContentAsStored` says what a success gives, and not when it succeeds); of a file of 2 GB it gives a valid, empty string.
- `truncate()` by name returns 0 where its comment promises the new size.
  `readContent()` goes on when its callback returns less than it was given, and counts all of
  it, where `include/IFS/FileSystem.h:300` has "< size to stop": `ContentAsStored` is of
  callbacks that take all or return an error.
- `fenumxattr()` of the host returns 1, however many attributes it has given; an
  attribute that does not fit the buffer is left out without notice.
- `setxattr()` of the host opens with read and write access, which a directory refuses.
  A stored `FileAttributes` replaces the `Directory` and `ReadOnly` bits that the host
  knows. `fgetxattr()` of `ModifiedTime` succeeds for a handle that is not valid.
- `stat()` of the host succeeds without the attributes when no descriptor is free. An
  entry that is removed between the host's `readdir()` and its `stat()` makes the call fail.
  Enumerating the empty path without a root path looks for the entries in `/`.
- `eof()` of the host takes a position of 2 GB or more for an error, and returns that of an earlier
  call, or 0.
- A `FileDevice` has the file's size rounded up: its last block cannot be read if the file
  ends within it.
- A `Directory` that is opened again keeps the index and the counts of the one before.
- `getAttribute()` into a `String` takes the error `BufferTooSmall` itself for the length to
  allocate (`include/IFS/FileSystem.h:193`); `removeAttribute()` stores an empty attribute.

## 5. The theorems

`FwfsProofs`, for every image, every number of descriptors and volumes, and any
set of applications' file systems, from `ImageAssumption` (child tables are
sequences of entries) and `ParametersAssumption` (sizes are sizes, and the media
is smaller than `WordSize`) alone, but for the last, which takes also that "not open" is
none of the values it stands beside (`ClosedAssumption`):

- `TypeCorrect`: `Spec => []TypeOK`. Inductive as it stands, since `TypeOK` says
  that a `read()` in progress works on a descriptor of a file: without this
  conjunct the loop would dereference a free descriptor.
- `DescriptorOwnership`: `Spec => []DescriptorsOwned`.
- `InnerHandleOwnership`: `Spec => []InnerHandlesOwned`.

The last two depend on a step only through what it does to descriptors,
directory objects and file systems. `NextEffect` shows that each step is one of
eight *effects* (a cursor moves, a descriptor is allocated, released, ...), and the
invariants are shown to be kept by each effect; so the actions are expanded once
and not once per invariant.

Three more hold where the media can be read (`~MediaFaults`); otherwise `open()` records
a size that is short, and `readdir()` ends early.

- `SizesRecorded`: `Spec => []SizeIsTotal`. The invariant `SizesFit` adds that a size is
  within the media, so that a position in a file is never mistaken for one that wrapped.
- `ListingsInOrder`: `Spec => []ListingInOrder`. The invariant `Listings` says that a
  directory object stands behind the last entry that was given, or at the end; so that
  the entries without a name in between (data, attributes) add nothing.
- `ReadsFromFirstObject`: `Spec => ReadFromFirstObject`, for files of any number of data
  objects of any length, any cursor in the first of them, and any size. The property speaks
  of the step that returns, and its invariant `Gathered` of the loop: `start` is the size
  of the data objects before `child`, and what has been gathered is the content from
  where the call began up to the cursor, which is where the last data object ended, or
  none has been met yet (`Gathering`). Then nothing wraps (`CursorWithin`, `TakenIs`) and
  the bytes taken are those that follow in the content (`RunFollows`). For a call that
  begins behind the first object this is false (finding 1).

And with one data object in each child table, which is what the builder writes, and
contents within the media (`OneDataObject`), but whatever the media does:

- `ImplementsStore`: `Spec => StoreSpec`. A read in progress has nothing yet, and at the
  start of its content (`Single`); so the step that takes data is the one that the store
  makes, and each other step is a call of the store or one that it does not see.
  `DataSize` is here the length of that object (`OneIsAll`).

The content and the size of a file, and a listing, are folds over a child table. What one
more entry adds to them (`JoinedStep`) follows from the recursive functions behind the
library's `FlattenSeq`, by taking the least counterexample (`LeastExists`): induction
theorems with operators as parameters are out of reach.

`ImageBuilderProofs`, first for all types of objects, from no assumption:

- `HeaderDecodes`: for every size that the type allows, the header is made of bytes, and
  the file system reads the type, the size and the offset of the content from it. By
  cases on the width of the size.
- `ReferenceDecodes`: for every offset of 32 bits, likewise, whichever number of bytes
  the builder has taken for it; and the size leads to the next entry. It rests on
  `TwoBytes`, `ThreeBytes` and `FourBytes`: the bytes of a number make up the number.

These are what `builder_image` can only sample: the scan of `mount()` and the walk
through child tables add these sizes to offsets.

Then, from `SourceAssumption` and `BuilderAssumption` (the constants have their types), for
every configuration, in whichever order directories are listed:

- `TypeCorrect`: `Spec => []TypeOK`, and `NothingTwice`: `Spec => []ChildrenAreDistinct`.
  The invariant is that the objects are a tree (`IsTree`: each comes after its parent,
  an object's children are its own, and any two of them `Differ`), and that what is to be
  added belongs to an object that is there. Two lemmas say how a tree changes:
  leaving out children or setting values leaves a tree (`TreeSelected`), and so does a
  new child that differs from those there (`ObjectAdded`). Each operation of the
  builder is one of these, and the conditions that make the new child differ are spread
  over the code: `setAttr()` looks for an attribute first; `appendCompression()` removes
  the old one; `appendACE()` asks for an *inherited* entry, so it must be shown that an
  object's own entry is what it inherits (`InheritableIs`); `createFsObject()` looks for
  the name; and of data and the hash a file has nothing of its own before `addFile()` gives
  it these, which is why a file that is new has only what rules give (`HasEarly`).
  What many rules, or the directories on the way to a target, come to is a
  recursive function; that it exists, and keeps the tree, is by the least counterexample
  (`RulingExists`, `WayExists`, `InheritingExists`).

`FileCopierProofs`, for every tree, whatever calls fail and whatever the handler
answers, from `SourceAssumption` and `CopierAssumption` (the constants have their
types):

- `TypeCorrect`: `Spec => []TypeOK`, which is inductive: it says that a job's source
  exists once it has been opened and that its target does once created, so that
  no step looks up what is not there.
- `RefusalIsObeyed`: `Spec => RefusalStops`. The invariant is `RefusedIsStopped`: what
  was declined, attributes excepted, has ended the outermost call. A step keeps it
  because every caller passes the result on (`StepDeclines`), and none is possible
  once the call has ended (`StepIsRunning`).
- `OneDirectory`: `Spec => []OneDirectoryAtATime`, for every depth. The invariant
  `OpenIsCurrent` says which directory it is: that at the top of the stack, while its
  entries are enumerated.
- `OthersAreKept`: `Spec => OthersKept`, for trees that have each name in a directory
  once, and `Paths` with at least every path of the source. `ScopeInv` says that the
  source of a job, and each directory on the stack and in its `todo`, is to be copied, and
  that the job's target is where its source belongs; `OnlyAimsChange` that a step writes
  nowhere else.
- `LossesTold`: `Spec => []EveryLossIsTold`, provided that (`SourceIsPlain`) names are
  distinct in each directory, also those that a target without metadata gives; files have
  no entries; `copyFile()` is not called for a directory and `copyDir()` is called for one,
  where the target has no file. Otherwise it is false (see "Also seen"); the constants of
  `copier_tree` are such.
  The property speaks only of a copy that has ended, and its invariant `CopyInv` of every
  moment before. `LossInv` says that each path to be copied is *accounted for* (it is on
  the target, or was told of, or is behind what nobody is told of) or *pending*: it is the
  job's, or due in a directory on the stack, among the entries from `next` on, or below
  one of those in `todo`. `JobInv` says how far a job has got: what its phase and
  `next` promise of the target. A job that fails is told of at its path; one that
  ends has the phase at which nothing is missing. `FreshInv` says that a directory not
  opened yet has all its entries before it, and `RootInv` that where a directory is to be
  copied the target never gets a file. That what is accounted for stays so
  (`AccountedMore`) takes that two sources never have one target, so that a later file
  does not truncate an earlier one (`AimsDistinct`); hence the hypothesis on names.

`HyfsProofs`, for every firmware, any numbers of handles, descriptors and directory
objects, and all events of `Allowed`, from `HyfsAssumption`: the constants have their
types, the handles of the two layers are apart (as `FWFS_HANDLE_MIN` provides for), a
name is in the firmware directory once, and "no file", "not open" and "no longer there"
are none of the values they stand beside. Nothing is assumed of the length of data
beyond `MaxBlocks`, nor of the firmware's order.

- `TypeCorrect`: `Spec => []TypeOK`, and `NoLeaks`: `Spec => []NothingLeaks`. Neither is
  inductive. `Core` adds that a handle whose file was not removed has a file in the FFS
  (`Linked`); that a copy in progress has read at least as much as it has written, and
  that nobody else has its file open (`CopyUnderWay`); that `rename()` has opened the file
  to rename; and that the handle of a call in progress has not been given out. `open()`
  is proved about once: `OpenPathOutcomes` shows that all its early returns come to one
  of five outcomes, and every invariant is then kept by each outcome.
- `HiddenNames`: `[]HiddenAreShadowed`, when `rename()` and `fremove()` are not used (finding
  2 shows why); `Shadowed` carries it through.
- `ListingsExact`: `[]ListingExact`, on the same condition, whatever fails: an
  enumeration into which a failing `remove()` or `format()` comes is disturbed, those before
  and after are not. The invariant `Enumerated`
  keeps the account of each enumeration that is undisturbed. While it is in the FFS,
  what it has listed is what it has seen, and each of these is hidden if the firmware has
  it (`FfsPart`); in the firmware it has listed all of the FFS and, of the firmware up to
  the next entry, what the FFS does not have (`FwPart`). That the hidden names are just
  those, at the moment the firmware's part begins, takes `Shadowed` in one direction and
  `FfsPart` in the other.
- `CopiesAreComplete`: `Spec => CopyUpComplete` when media can be read and no write is
  short. `Prefix` says that the FFS file is the part of the firmware file read so far.
- `ReadOnlyProtected`: `Spec => []ReadOnlyKept` when `MaxHeld < MaxFds`, media can be read,
  and nothing is renamed to the name of a read-only file. That a descriptor is free is
  counted: those in use are held by applications (`NothingLeaks`), who hold fewer than
  there are (`Bounded`, `SpareSlot`). Without the first condition it fails (finding 3).
- `ImplementsOverlay`: on these conditions, when no power is lost and no part of a copy that failed is
  left behind (`CleanupFault`), `Spec => OverlaySpec`, also when removals and formats fail.
  Each outcome of `open()`, each step of a copy and each call is shown to be a step of
  `Overlay` or one that it does not see: a copy is not seen until its last step, at
  which the file of the FFS takes the place of the firmware's and is equal to it
  (`Prefix`), and the handle appears with the flags that `open()` was called with
  (`CopyFlags`). `Bounded` and `Protected` are needed for "a read-only file is never
  anything but what the firmware has". The conditions are those of `hyfs_overlay`.

`WrappersProofs`, for every tree, any numbers of files, directories and descriptors, all
calls and whatever other programs do, from `HostAssumption` (descriptors are numbers,
pointers are not null, and a file has a greatest size), `OffsetAssumption` (so has an
offset) and `WrappersAssumption` (a call starts where its function starts, without a
descriptor of its own and with nothing read; its arguments have their types; a device is
asked for a block at least; a buffer is not empty; the trees to begin with have files and directories):

- `HandlesHaveOneOwner`: `Spec => []HandlesOwned`. Each outcome of each call of the host is
  shown to keep, open or close a descriptor or a stream (`Keeps`, `Opens`, `Closes`,
  `GivesStream`, `EndsStream`), then each method of `HostFs`, and then each step of a call
  (`StepGoes`): it keeps what is open, opens a descriptor of its own if it has none, or
  closes that. Two things make the invariant inductive. `Phase` says at which points a
  call may have a descriptor, so that one that returns has none. `NothingOpen` says that
  a file system that is not mounted has nothing open: `close()` looks at that first, and
  would leave the descriptor open. (The one open() that does not look is that of `stat()`,
  which looks at its start, before its `lstat()`: also in `Phase`.)
- `ValuesAreTyped`: `Spec => []TypeOK`. `Values` is added to the invariant. Its core is
  `Sound`: each name and each open descriptor leads to a file or directory that exists,
  with a content of blocks, and a cursor is not negative. Names and descriptors need each
  other: a file that has lost its name is given up when its last descriptor is closed, and
  what has a name or another descriptor must not be (`Reap`). `StatOk` says from which
  step on `next()` has an entry, without which it might count a size that is not one.
- `QueriesLeaveFiles`: `Spec => QueriesChangeNothing`. Each outcome of a call of the host
  that only asks leaves the names, what they lead to, and all descriptors but the given
  ones as they were (`Leaves`); so does each step of a call that only asks. `getSize()`
  by handle puts the cursor back with a third seek whose result nobody looks at, and
  which comes back to where it was only if the first one told that: hence
  the condition on `OffsetRange`. It rests on `NothingOpen` as well: while a
  descriptor is open the file system is mounted, and no seek is refused half-way.

`WrappersEffectsProofs`, from the same assumptions:

- `ChangesAreAsAsked`: `Spec => []EffectsAsAsked`. What a call has done when it returns is
  found by following it: `Stage` says of each call that changes something, for each point
  it stops at, what the file it works on holds by then and where the cursor is
  (`SetStage`, `CutStage`, `MadeStage`, `DeviceStage`). `setContent()` has emptied the file
  before it writes, and the file is still found by its name then; `truncate()` has the content
  it began with; `makedirs()` has a directory at each prefix up to the one it is at; a
  device that erases has erased the range up to the cursor, has as much of it left as
  `got` is long (`Erasing`), and has touched nothing outside (`Outside`). Each
  call of the host is shown to do what the stage needs, or to fail and leave it (`Writes`,
  `ReadTells`, `DeviceSeeks`); that a part of a buffer written at the cursor goes on with
  what was written before is `ErasesOn` and `OutsideKept`, about `Overwrite`. Between two
  steps of a call only another program changes files, and of a call it has come between
  nothing is said. That a device's descriptor is one takes `DeviceHeld`, and that it is
  open takes the owners of `WrappersProofs`.

`ArchiveStreamProofs`, for every tree of nodes (mount points that close a cycle
included), whatever calls fail, whatever an encoder makes of a file, however the blocks
are read, from `SourceAssumption` and `ArchiveAssumption` (the constants have their types; the
limit for inline data is not 0, as `ArchiveStream.cpp:25` has it):

- `EndsMountable`: `Spec => []SuccessIsMountable`, wherever the stream is reset.
  `MountInv` says what the last blocks are in each state, and that `directories[0]` is a
  directory even where a mount point is the root: the volume then refers to the block
  before it, which is the directory that `mount()` looks for.

The others hold of trees that are `Archivable`, where what fails otherwise is a finding:
no directory lies deeper than `directories[]` has room for (`ShallowTree`; a mount
point that is not enumerated has nothing below it); a directory has each name once; a
name and its separator are counted in the byte `namelen`; and the stream is reset only
before the root directory or within it (finding 4). The tree of `archive_stream` is one.

- `StreamTyped`: `[]TypeOK`, and `WayIsTracked`: `[]DirectoriesTracked`. The invariant is `TreeInv`. `PathInv` says that the
  current path has the name of each directory on the way, and that `namelen` is how many
  characters these are, so that what `closeDirectory()` takes off is one name
  (`TakeOffLast`). `NodeInv` says that each entry of `directories[]` stands for the node
  that the path up to it leads to, and that the depth of what is below this node fits in
  the rest of `directories[]`: so `level` never gets behind its end. `OpenInv` counts what
  is open. Looking up a path and the length of a path are recursive functions; what one
  more name does to them (`LookupStep`, `PathLengthStep`) is proved by taking the least
  counterexample (`LeastExists`), as induction theorems with operators as parameters
  are out of reach.
- `EveryReferenceResolves`: `[]ReferencesResolve`. `ContentInv` says that what has been
  noted in the entries of the directories on the way resolves already, and what in that
  of the file whose data goes out; the data block whose header went out last is *due*,
  and follows next. That a directory refers to its entries by the names that they have
  in the source takes `NodeInv` (`DirectoryOfParent`).

**Only model-checked**: liveness (out of the prover's reach); that
the image an archive stream makes reads as the tree (`RoundTrip`); that the image which
`fsbuild` writes is what the configuration asks for (`FailsOnConflict`, `ContentsAsConfigured`,
`AttributesAsRuled`: they compare the bytes, as read back, with all entries and rules);
that what is read and listed through the wrappers is what the files hold
(`ContentAsStored`, `AttributesAsSet`, `ListingAsDirectory`).

## 6. Not modelled, and why

- Time stamps, and the attributes of `Fwfs`'s constant image: pure data. What
  `fillStat()` and the attribute calls make of an image is in `ImageReader`.
- The configuration's text and masks, the builder's log and its copy of generated files.
- HYFS over subdirectories and mount points, and the copy of attributes when a
  file is copied up: one directory shows the protocol between the layers.
- The GDB file system: each call is one call of the debugger. Of the host file system,
  `getinfo()`, the text of errors, and the branches for Windows and Apple.
- Of the wrappers, calls that pass on to one modelled in `HostFs`, paths as text
  (`getPath()`, `getParent()`), user attributes by number, and running out of memory.
- The wrappers over other file systems than the host's: it is the host's that other
  programs share. `FileCopier` has them over any two file systems.
- Value types, text, debug output.

## 7. Plan

In order of importance. Done:

1. `FwfsImage`, `Fwfs`, `ReadStore`, and proofs of type correctness, ownership, listings and
   the content of reads, and that it implements `ReadStore`.
2. `FlashStore`, `Hyfs`, `Overlay`, and proofs of its invariants and that it implements
   `Overlay`.
3. `ArchiveStream` over a source tree with failures, and proofs that it tracks its way, that
   its references resolve and that what it makes can be mounted.
4. `FileCopier`, and proofs of type correctness, refusal and open directories; that it
   leaves alone what is not copied, and that it loses nothing in silence.
5. `FwfsObject`, and proofs that headers and references decode; `ImageReader`.
6. `ImageBuilder`: images against configurations and rules, and proofs that its objects
   are a tree in which nothing is twice.
7. `HostOs`, `HostFs`, `Wrappers`: the host file system, the wrappers and devices, and the
   proofs that each descriptor and stream has one owner, that asking changes nothing, and
   that what changes a file changes it as asked.

To do:

8. `Hyfs` over subdirectories.
