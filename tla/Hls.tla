-------------------------------- MODULE Hls ---------------------------------
(***************************************************************************)
(* internal/fetch: what Download does for an HLS source (downloadHLS, with *)
(* ParsePlaylist, ChooseVariant and ResolveURL), for a file:// source      *)
(* (downloadFile) and for a source that cannot be read in ranges           *)
(* (downloadStream).  The ranges are in module RangedDownload.             *)
(*                                                                         *)
(* A URL is a directory and a name; a reference without a directory is     *)
(* relative.  A resource is read block by block, 1..Blocks.                *)
(***************************************************************************)
EXTENDS Integers, Sequences

CONSTANTS
    Pages,          \* URL -> sequence of lines, for the playlists there are
    Passed,         \* lines EXT-X-MEDIA... and EXT-X-TARGETDURATION
    Tags,           \* all other lines with #, but for EXT-X-STREAM-INF
    Sources,        \* <<"hls" | "stream" | "file", URL>>
    Blocks, MaxCalls,       \* bounds: blocks of a resource, and attempts at one source
    NoURL

LinesOf(page) == {page[i] : i \in DOMAIN page}
ASSUME HlsAssumption ==
    /\ \A url \in DOMAIN Pages : Pages[url] \in Seq(LinesOf(Pages[url]))
    /\ Blocks \in Nat /\ MaxCalls \in Nat

VARIABLES
    src, calls,     \* the source of the job, and how often it has been tried
    phase,             \* where Download is
    base, play,     \* the playlist that was read last, and its URL
    variant,        \* ChooseVariant's choice, none for a media playlist
    current, block, \* the index of the resource being read, and the block of it
    file,           \* destFile: the blocks it holds
    cut             \* history, no step reads it: a body of this attempt ended early

fetched == <<base, play, variant>>
hlsVars == <<src, calls, phase, fetched, current, block, file, cut>>

\* a line is a reference, a tag in its place, or [inf |-> attributes of EXT-X-STREAM-INF]
IsInf(line) == "inf" \in DOMAIN line
IsPassed(line) == ~IsInf(line) /\ line.name \in Passed
IsTag(line) == ~IsInf(line) /\ line.name \in Tags

NoPlaylist == [segments |-> <<>>, variants |-> <<>>, pending |-> <<>>]

\* the line after EXT-X-STREAM-INF is its URL, a comment too; of several such lines the last counts
ParseLine(p, line) ==
    CASE IsPassed(line) -> p
      [] IsInf(line) -> [p EXCEPT !.pending = <<line.inf>>]
      [] ~IsInf(line) /\ ~IsPassed(line) /\ p.pending # <<>> ->
            [p EXCEPT !.variants = Append(@, [url |-> line, inf |-> Head(p.pending)]),
                      !.pending = <<>>]
      [] p.pending = <<>> /\ ~(IsPassed(line) \/ IsInf(line) \/ IsTag(line)) ->
            [p EXCEPT !.segments = Append(@, line)]
      [] OTHER -> p

ParsePlaylist(lines) ==
    LET parsed[n \in 0..Len(lines)] ==
            IF n = 0 THEN NoPlaylist ELSE ParseLine(parsed[n - 1], lines[n])
    IN parsed[Len(lines)]

Parses(p) == p.segments = <<>> \/ p.variants = <<>>

\* the attributes are cut at commas, so that of several codecs in quotes the first is seen
Eligible(vs) ==
    LET hardware == SelectSeq(vs, LAMBDA v : Head(v.inf.codecs) # "av1")
    IN IF hardware = <<>> THEN vs ELSE hardware

\* a unit of bandwidth is 10 kbit/s
VariantScore(v) ==
    v.inf.bandwidth + (CASE v.inf.height = 1080 -> 100 [] v.inf.height = 720 -> 70 [] OTHER -> 0)

\* the first of those with the best score
ChooseVariant(vs) ==
    LET es == Eligible(vs)
        best == CHOOSE i \in DOMAIN es : \A j \in DOMAIN es :
            VariantScore(es[i]) > VariantScore(es[j])
            \/ (VariantScore(es[i]) = VariantScore(es[j]) /\ i <= j)
    IN es[best]

ResolveURL(from, ref) == IF ref.dir # "" THEN ref ELSE [ref EXCEPT !.dir = from.dir]

HlsInit ==
    /\ src = <<"none", NoURL>> /\ calls = 0
    /\ phase = "idle"
    /\ base = NoURL /\ play = NoPlaylist /\ variant = <<>>
    /\ current = 0 /\ block = 0
    /\ file = <<>> /\ cut = FALSE

GotoPhase(l) == phase' = l /\ UNCHANGED <<src, calls>>

\* the queue tries again, into the same file
Download ==
    /\ phase \in {"idle", "failed"} /\ calls < MaxCalls
    /\ calls' = calls + 1
    /\ IF calls = 0 THEN src' \in Sources ELSE UNCHANGED src
    /\ phase' = IF src'[1] = "hls" THEN "playlist" ELSE "create"
    /\ base' = src'[2] /\ play' = NoPlaylist /\ variant' = <<>> /\ cut' = FALSE
    /\ UNCHANGED <<current, block, file>>

\* fetchPlaylist, of the source and then of a variant
FetchPlaylist ==
    /\ phase = "playlist" /\ base \in DOMAIN Pages
    /\ LET p == ParsePlaylist(Pages[base]) IN
        /\ Parses(p)
        /\ play' = p
        /\ \/ /\ p.variants # <<>> /\ variant = <<>>
              /\ variant' = <<ChooseVariant(p.variants)>>
              /\ base' = ResolveURL(base, variant'[1].url)
              /\ GotoPhase("playlist")
           \/ /\ p.segments # <<>>
              /\ UNCHANGED <<base, variant>> /\ GotoPhase("create")
    /\ UNCHANGED <<current, block, file, cut>>

Resources == IF src[1] = "hls" THEN [i \in DOMAIN play.segments |-> ResolveURL(base, play.segments[i])]
             ELSE <<src[2]>>

\* Mutant: what an earlier attempt left in the file stays in it.
CreateDestAppending ==
    /\ phase = "create" /\ GotoPhase("request")
    /\ current' = 1 /\ block' = 0
    /\ UNCHANGED <<fetched, file, cut>>

CreateDest ==
    /\ phase = "create" /\ GotoPhase("request")
    /\ current' = 1 /\ block' = 0 /\ file' = <<>>
    /\ UNCHANGED <<fetched, cut>>

\* the request for a segment or a stream, which may not be there; a local file is open already
Request ==
    /\ phase = "request" /\ GotoPhase("read")
    /\ block' = 1
    /\ UNCHANGED <<fetched, current, file, cut>>

ReadBlock ==
    /\ phase = "read" /\ block <= Blocks /\ GotoPhase("read")
    /\ file' = Append(file, <<Resources[current], block>>)
    /\ block' = block + 1
    /\ UNCHANGED <<fetched, current, cut>>

\* io.EOF, which a body without a length may give anywhere: then the rest is not missed
End ==
    /\ phase = "read" /\ (block = Blocks + 1 \/ src[1] # "file")
    /\ cut' = (cut \/ block # Blocks + 1)
    /\ \/ current < Len(Resources) /\ current' = current + 1 /\ GotoPhase("request")
       \/ current = Len(Resources) /\ UNCHANGED current /\ GotoPhase("ok")
    /\ UNCHANGED <<fetched, block, file>>

\* an HTTP error, a playlist that does not parse or has neither segments nor, the first time,
\* variants, an error of a read or a write, a cancelled context
DownloadFails ==
    /\ phase \notin {"idle", "ok", "failed"}
    /\ GotoPhase("failed")
    /\ UNCHANGED <<fetched, current, block, file, cut>>

HlsNext ==
    \/ Download \/ FetchPlaylist \/ CreateDest \/ Request \/ ReadBlock \/ End \/ DownloadFails

HlsSpec == HlsInit /\ [][HlsNext]_hlsVars
-----------------------------------------------------------------------------
IsReference(line) == ~(IsPassed(line) \/ IsInf(line) \/ IsTag(line))

References(lines) ==
    LET refs[n \in 0..Len(lines)] ==
            IF n = 0 THEN <<>>
            ELSE IF IsReference(lines[n]) THEN Append(refs[n - 1], lines[n]) ELSE refs[n - 1]
    IN refs[Len(lines)]

\* each of the resources whole and in order
IsWhole(blocks, urls) ==
    /\ Len(blocks) = Len(urls) * Blocks
    /\ \A i \in 1..Len(urls), b \in 1..Blocks : blocks[(i - 1) * Blocks + b] = <<urls[i], b>>

(* When Download succeeds and no body ended early, the file is exactly what the source        *)
(* consists of, which for HLS is every reference of the last playlist read: each whole and in *)
(* order, whatever an earlier attempt left in the file.  A body without a length that ends    *)
(* early is taken for whole (download.go:361, 435), and nothing is promised of the file then. *)
FileIsWhole ==
    phase = "ok" /\ ~cut =>
        IsWhole(file, IF src[1] # "hls" THEN <<src[2]>>
                      ELSE LET refs == References(Pages[base])
                           IN [i \in DOMAIN refs |-> ResolveURL(base, refs[i])])
=============================================================================
