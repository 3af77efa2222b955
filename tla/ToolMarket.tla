------------------------------ MODULE ToolMarket ------------------------------
(***************************************************************************)
(* services/tool_market.rs: installs of one tool on several devices, each  *)
(* a command of its own: the cache of downloads on disk, the part files    *)
(* they are written to, and what reaches the devices.  A frida-server is   *)
(* fetched as an archive and extracted on every install.                   *)
(*                                                                         *)
(* A file is an inode with a directory entry: File::create truncates the   *)
(* inode it finds, and a rename moves it under the feet of whoever has it  *)
(* open.  The network and GitHub are external.                             *)
(***************************************************************************)
EXTENDS Naturals

CONSTANTS
  Order,       \* the installs
  Size,        \* size_bytes, in chunks
  Attempts,    \* of github_get
  MaxInodes,   \* bound on the files there are at a time, open ones included: two for an
               \* install and four in the cache directory are always enough
  MaxNoise,    \* bound on broken streams, corrupted chunks and failed writes
  MaxQuits     \* bound on ends of the desktop in mid-install

ASSUME MarketAssumption ==
  /\ Size \in Nat \ {0} /\ Attempts \in Nat \ {0} /\ MaxNoise \in Nat /\ MaxQuits \in Nat
  /\ MaxInodes \in Nat

File == {"archive", "binary"}
Chunk == 1..Size
NoInode == 0
Inode == 1..MaxInodes

VARIABLES
  part, cached,     \* the inode of file.part and of file in cache_dir
  bytes,            \* the chunks of an inode
  stage,            \* where each install is
  tool,             \* what it installs
  into, wrote,      \* the inode it has open, and how far it has written
  from,             \* the archive an extraction reads
  clean,            \* its digest of the stream is the one expected so far
  tries, assetKnown,\* GitHub requests of an install; frida_assets
  pushed,        \* the file on the device of an install
  report,           \* what the install answered
  noise, quits,
  shared,           \* history: two installs had one part file open
  unflushed         \* history: the last write of a download failed, unseen

marketVars == <<part, cached, bytes, stage, tool, into, wrote, from, clean, tries,
                assetKnown, pushed, report, noise, quits, shared, unflushed>>
fileVars == <<part, cached, bytes>>
streamVars == <<into, wrote, from, clean>>

Empty == [c \in Chunk |-> "none"]
Whole(b) == \A c \in Chunk : b[c] = "good"            \* the digest matches
FullLength(b) == b[Size] # "none"                     \* a hole counts
Cut(b) == b[Size] = "none" /\ \A c \in Chunk \ {Size} : b[c] = "good"

FileOf(o) == IF stage[o] \in {"open", "fill"} /\ tool[o] = "frida" THEN "binary" ELSE "archive"
Payload(o) == IF tool[o] = "frida" THEN "binary" ELSE "archive"
Free == {i \in Inode : /\ \A f \in File : part[f] # i /\ cached[f] # i
                      /\ \A o \in Order : into[o] # i /\ from[o] # i}
NewInode == CHOOSE i \in Free : TRUE

MarketTypeOK ==
  /\ part \in [File -> Inode \cup {NoInode}] /\ cached \in [File -> Inode \cup {NoInode}]
  /\ bytes \in [Inode -> [Chunk -> {"none", "good", "bad"}]]
  /\ stage \in [Order -> {"idle", "resolve", "check", "fetch", "stream", "open", "fill",
                          "push", "verify", "done"}]
  /\ tool \in [Order -> {"none", "fixed", "frida"}]
  /\ into \in [Order -> Inode \cup {NoInode}] /\ from \in [Order -> Inode \cup {NoInode}]
  /\ wrote \in [Order -> 0..Size] /\ clean \in [Order -> BOOLEAN]
  /\ tries \in [Order -> 0..Attempts]
  /\ pushed \in [Order -> [Chunk -> {"none", "good", "bad"}]]
  /\ report \in [Order -> {"none", "failed", "short", "verified"}]

MarketInit ==
  /\ part = [f \in File |-> NoInode] /\ cached = [f \in File |-> NoInode]
  /\ bytes = [i \in Inode |-> Empty]
  /\ stage = [o \in Order |-> "idle"] /\ tool = [o \in Order |-> "none"]
  /\ into = [o \in Order |-> NoInode] /\ from = [o \in Order |-> NoInode]
  /\ wrote = [o \in Order |-> 0]
  /\ clean = [o \in Order |-> TRUE]
  /\ tries = [o \in Order |-> 0] /\ assetKnown = FALSE
  /\ pushed = [o \in Order |-> Empty] /\ report = [o \in Order |-> "none"]
  /\ noise = 0 /\ quits = 0 /\ shared = FALSE /\ unflushed = FALSE

-----------------------------------------------------------------------------
At(o, s) == stage[o] = s
To(o, s) == stage' = [stage EXCEPT ![o] = s]
Noise == noise < MaxNoise /\ noise' = noise + 1
Ended(o, r) == To(o, "done") /\ report' = [report EXCEPT ![o] = r]

(* A fixed entry of the catalog knows its digest; a frida-server asks.     *)
(* Installs of other tools and versions have files of other names.         *)
PlaceOrder(o, k) ==
  /\ At(o, "idle")
  /\ \A p \in Order : tool[p] \in {"none", k}
  /\ tool' = [tool EXCEPT ![o] = k]
  /\ To(o, IF k = "frida" THEN "resolve" ELSE "check")
  /\ UNCHANGED <<fileVars, streamVars, tries, assetKnown, pushed, report, noise, quits, shared,
                 unflushed>>

(* resolve_frida_asset and github_get: transport errors are tried again,   *)
(* refusals are not.                                                       *)
Resolve(o) ==
  /\ At(o, "resolve")
  /\ \/ To(o, "check") /\ assetKnown' = TRUE /\ UNCHANGED <<tries, report, noise>>
     \/ /\ ~assetKnown /\ Noise
        /\ tries' = [tries EXCEPT ![o] = @ + 1]
        /\ IF tries'[o] = Attempts THEN Ended(o, "failed") ELSE UNCHANGED <<stage, report>>
        /\ UNCHANGED assetKnown
     \/ ~assetKnown /\ Ended(o, "failed") /\ UNCHANGED <<tries, assetKnown, noise>>
  /\ UNCHANGED <<fileVars, streamVars, tool, pushed, quits, shared, unflushed>>

(* ensure_local: a cached file with the expected digest is used, another   *)
(* one is removed and fetched again; ensure_frida_binary lets one of the   *)
(* wrong length be.                                                        *)
NextStage(o) == IF tool[o] = "frida" THEN "open" ELSE "push"
CheckCacheByLength(o) ==
  /\ At(o, "check")
  /\ LET hit == cached["archive"] # NoInode /\ FullLength(bytes[cached["archive"]]) IN
     /\ cached' = IF hit THEN cached ELSE [cached EXCEPT !["archive"] = NoInode]
     /\ To(o, IF hit THEN NextStage(o) ELSE "fetch")
  /\ UNCHANGED <<part, bytes, streamVars, tool, tries, assetKnown, pushed, report, noise,
                 quits, shared, unflushed>>

CheckCache(o) ==
  /\ At(o, "check")
  /\ LET i == cached["archive"]
         hit == i # NoInode /\ Whole(bytes[i])
         kept == i # NoInode /\ tool[o] = "frida" /\ ~FullLength(bytes[i]) IN
     /\ cached' = IF hit \/ kept THEN cached ELSE [cached EXCEPT !["archive"] = NoInode]
     /\ To(o, IF hit THEN NextStage(o) ELSE "fetch")
  /\ UNCHANGED <<part, bytes, streamVars, tool, tries, assetKnown, pushed, report, noise,
                 quits, shared, unflushed>>

(* File::create of the part file, by the download and by extract_xz: the   *)
(* inode that is there is truncated, also when another install writes it.  *)
CreatePart(o) ==
  /\ At(o, "fetch") \/ (At(o, "open") /\ cached["archive"] # NoInode)
  /\ from' = [from EXCEPT ![o] = IF At(o, "open") THEN cached["archive"] ELSE NoInode]
  /\ LET f == FileOf(o)
         i == IF part[f] # NoInode THEN part[f] ELSE NewInode IN
     /\ part[f] # NoInode \/ Free # {}
     /\ part' = [part EXCEPT ![f] = i]
     /\ bytes' = [bytes EXCEPT ![i] = Empty]
     /\ into' = [into EXCEPT ![o] = i]
     /\ shared' = (shared \/ \E p \in Order : into[p] = i)
  /\ wrote' = [wrote EXCEPT ![o] = 0] /\ clean' = [clean EXCEPT ![o] = TRUE]
  /\ To(o, IF At(o, "fetch") THEN "stream" ELSE "fill")
  /\ UNCHANGED <<cached, tool, tries, assetKnown, pushed, report, noise, quits, unflushed>>

(* Chunks go to the inode that is open; the digest is of the stream. *)
WriteChunk(o) ==
  /\ At(o, "stream") \/ At(o, "fill")
  /\ wrote[o] < Size
  /\ LET c == wrote[o] + 1 IN
     \E b \in {"good", "bad"} :
       /\ IF b = "bad" THEN At(o, "stream") /\ Noise ELSE UNCHANGED noise
       /\ At(o, "fill") => bytes[from[o]][c] = "good"
       /\ bytes' = [bytes EXCEPT ![into[o]][c] = b]
       /\ clean' = [clean EXCEPT ![o] = @ /\ b = "good"]
       /\ wrote' = [wrote EXCEPT ![o] = c]
  /\ UNCHANGED <<part, cached, stage, tool, into, from, tries, assetKnown, pushed, report, quits,
                 shared, unflushed>>

(* The write of the last chunk fails, a full disk for one: a write is only *)
(* begun by write_all, and what flush has to say of it is discarded.       *)
LoseTail(o) ==
  /\ At(o, "stream") /\ wrote[o] = Size - 1
  /\ Noise
  /\ wrote' = [wrote EXCEPT ![o] = Size] /\ unflushed' = TRUE
  /\ UNCHANGED <<fileVars, stage, tool, into, from, clean, tries, assetKnown, pushed, report,
                 quits, shared>>

(* Without network nothing is touched.  A connection that breaks, and a    *)
(* write that fails before the last, leave the part file where it is; a    *)
(* short stream, and an archive that does not extract, take it away.       *)
Close(o) ==
  /\ into' = [into EXCEPT ![o] = NoInode] /\ from' = [from EXCEPT ![o] = NoInode]
  /\ UNCHANGED <<wrote, clean>>
DropPart(f) == part' = [part EXCEPT ![f] = NoInode]
BreakOff(o) ==
  /\ \/ At(o, "stream") /\ Noise /\ (UNCHANGED part \/ DropPart("archive"))
     \/ /\ At(o, "fill") /\ DropPart("binary")
        /\ \/ wrote[o] < Size /\ bytes[from[o]][wrote[o] + 1] # "good" /\ UNCHANGED noise
           \/ Noise
     \/ At(o, "fetch") /\ Noise /\ UNCHANGED part
     \/ At(o, "open") /\ cached["archive"] = NoInode /\ UNCHANGED <<part, noise>>
  /\ Close(o) /\ Ended(o, "failed")
  /\ UNCHANGED <<cached, bytes, tool, tries, assetKnown, pushed, quits, shared, unflushed>>

(* Size and digest of the stream decide whether the part file becomes the  *)
(* cached one; it is moved by name.                                        *)
FinishUnverified(o) ==
  /\ At(o, "stream") \/ At(o, "fill")
  /\ wrote[o] = Size
  /\ LET f == FileOf(o) IN
     IF part[f] = NoInode
     THEN Ended(o, "failed") /\ UNCHANGED <<part, cached>>
     ELSE /\ cached' = [cached EXCEPT ![f] = part[f]] /\ DropPart(f)
          /\ To(o, IF At(o, "stream") THEN NextStage(o) ELSE "push") /\ UNCHANGED report
  /\ Close(o)
  /\ UNCHANGED <<bytes, tool, tries, assetKnown, pushed, noise, quits, shared, unflushed>>

Finish(o) ==
  /\ At(o, "stream") \/ At(o, "fill")
  /\ wrote[o] = Size
  /\ LET f == FileOf(o) IN
     CASE ~clean[o] -> DropPart(f) /\ Ended(o, "failed") /\ UNCHANGED cached
       [] clean[o] /\ part[f] = NoInode -> Ended(o, "failed") /\ UNCHANGED <<part, cached>>
       [] OTHER ->
            /\ cached' = [cached EXCEPT ![f] = part[f]] /\ DropPart(f)
            /\ To(o, IF At(o, "stream") THEN NextStage(o) ELSE "push") /\ UNCHANGED report
  /\ Close(o)
  /\ UNCHANGED <<bytes, tool, tries, assetKnown, pushed, noise, quits, shared, unflushed>>

(* push_and_verify: what is in the cache by now; the answer compares the   *)
(* length on the device, no digest.                                        *)
Push(o) ==
  /\ At(o, "push")
  /\ LET i == cached[Payload(o)] IN
     \/ i # NoInode /\ pushed' = [pushed EXCEPT ![o] = bytes[i]] /\ To(o, "verify")
        /\ UNCHANGED report
     \/ Ended(o, "failed") /\ UNCHANGED pushed
  /\ UNCHANGED <<fileVars, streamVars, tool, tries, assetKnown, noise, quits, shared, unflushed>>

Verify(o) ==
  /\ At(o, "verify")
  /\ Ended(o, IF FullLength(pushed[o]) THEN "verified" ELSE "short")
  /\ UNCHANGED <<fileVars, streamVars, tool, tries, assetKnown, pushed, noise, quits, shared,
                 unflushed>>

(* The desktop ends: downloads stop where they are. *)
Quit ==
  /\ quits < MaxQuits /\ quits' = quits + 1
  /\ stage' = [o \in Order |-> IF At(o, "idle") THEN "idle" ELSE "done"]
  /\ into' = [o \in Order |-> NoInode] /\ from' = [o \in Order |-> NoInode]
  /\ assetKnown' = FALSE
  /\ UNCHANGED <<fileVars, tool, wrote, clean, tries, pushed, report, noise, shared, unflushed>>

(* Between installs a cached file may be cut or changed on disk. *)
Damage ==
  /\ Noise /\ \A o \in Order : stage[o] \in {"idle", "done"}
  /\ \E f \in File, c \in Chunk :
       cached[f] # NoInode /\ bytes' = [bytes EXCEPT ![cached[f]][c] = "bad"]
  /\ UNCHANGED <<part, cached, stage, tool, streamVars, tries, assetKnown, pushed, report,
                 quits, shared, unflushed>>

Installing(o) ==
  Resolve(o) \/ CheckCache(o) \/ CreatePart(o) \/ WriteChunk(o) \/ LoseTail(o) \/ BreakOff(o)
  \/ Finish(o) \/ Push(o) \/ Verify(o)

MarketNext ==
  \/ \E o \in Order : Installing(o) \/ \E k \in {"fixed", "frida"} : PlaceOrder(o, k)
  \/ Quit \/ Damage

MarketSpec == MarketInit /\ [][MarketNext]_marketVars

-----------------------------------------------------------------------------
(* A device only ever receives bytes whose digest was the expected one,    *)
(* whatever broken downloads, ended desktops and disks left in the cache,  *)
(* as long as no two installs wrote one part file; or, when the last write *)
(* of a download failed unseen, the file without its tail, which is never  *)
(* reported as verified.                                                   *)
DeliversVerified ==
  \A o \in Order : pushed[o] # Empty =>
    \/ Whole(pushed[o]) \/ shared
    \/ unflushed /\ Cut(pushed[o]) /\ report[o] # "verified"

(* tool_market.rs:6: size and digest are verified before the file is kept, *)
(* and nothing that fails the check is pushed to a device.                 *)
NeverPushesUnverified == \A o \in Order : report[o] = "verified" => Whole(pushed[o])
=============================================================================
