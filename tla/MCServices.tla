------------------------------ MODULE MCServices ----------------------------
(***************************************************************************)
(* Small instances, for TLC, of the components that share no state with    *)
(* the queue or with each other.  A behaviour is one of one component: the *)
(* first step chooses which, and the others stay as they begin.            *)
(***************************************************************************)
EXTENDS BoundedRate, MetaCache, Vpn, Registry, Tui, Space, Hls, Formats, TLC

CONSTANTS c1, c2, c3, h1, h2, r1, r2, j1, j2, j3

VARIABLE focus     \* the component

all == <<focus, vars, metaVars, registryVars, vpnVars, tuiVars, hlsVars, spaceVars, formatsVars>>

\* no adapter knows a quality or a codec, and archive.org alone knows sizes, most of the time
Source(host, sized) == [host |-> host, quality |-> "auto", codec |-> "unknown", sized |-> sized]
TwoOffers == "archiveorg" :> <<Source(h1, TRUE), Source(h1, FALSE)>>
             @@ "genericm3u8" :> <<Source(h2, FALSE)>>

ThreeSizes == j1 :> 1 @@ j2 :> 2 @@ j3 :> 2

\* a master playlist, its variants, one whose best codec is AV1, one whose variant is a comment,
\* one that is both kinds, and one that is not there
URL(dir, name) == [dir |-> dir, name |-> name]
Ref(name) == URL("", name)
Inf(height, bandwidth, codecs) ==
    [inf |-> [height |-> height, bandwidth |-> bandwidth, codecs |-> codecs]]
Playlists ==
    URL("a", "master") :> <<Ref("#"), Inf(1080, 500, <<"avc">>), Ref("#media"), Ref("hi"),
                            Inf(720, 3000, <<"avc">>), URL("b", "lo")>>
    @@ URL("a", "hi") :> <<Ref("#"), Ref("s1"), Ref("s2")>>
    @@ URL("b", "lo") :> <<Ref("s1"), Ref("#"), URL("a", "s2")>>
    @@ URL("a", "av1") :> <<Inf(1080, 900, <<"av1">>), Ref("hi"), Inf(720, 100, <<"avc">>), URL("b", "lo")>>
    @@ URL("a", "comment") :> <<Inf(1080, 900, <<"avc">>), Ref("#")>>
    @@ URL("a", "mixed") :> <<Inf(1080, 900, <<"avc">>), Ref("hi"), Ref("s1")>>
AllSources == ({"hls"} \X (DOMAIN Playlists \cup {URL("a", "gone")}))
              \cup ({"stream", "file"} \X {URL("a", "s1")})

SomeTitles == {<<>>, <<":", "x", ".">>, <<"/", "~", " ", "/">>, <<".", ".">>,
               <<"x", ":", " ", "x", "x", "x", "x", "x", "x", "x", "x">>}
ThreeBoxes == UNION {[1..n -> {"moov", "mdat", "free"} \X {"short", "long", "rest"} \X {0, 3}] : n \in 0..3}

Only(name) == focus \in {"none", name} /\ focus' = name

Rate(A) ==
    /\ Only("rate") /\ A
    /\ UNCHANGED <<metaVars, registryVars, vpnVars, tuiVars, hlsVars, spaceVars, formatsVars>>
MetaStep ==
    /\ Only("meta") /\ MetaNext
    /\ UNCHANGED <<vars, registryVars, vpnVars, tuiVars, hlsVars, spaceVars, formatsVars>>
RegistryStep ==
    /\ Only("registry") /\ RegistryNext
    /\ UNCHANGED <<vars, metaVars, vpnVars, tuiVars, hlsVars, spaceVars, formatsVars>>
VpnStep ==
    /\ Only("vpn") /\ VpnNext
    /\ UNCHANGED <<vars, metaVars, registryVars, tuiVars, hlsVars, spaceVars, formatsVars>>
TuiStep ==
    /\ Only("tui") /\ TuiNext
    /\ UNCHANGED <<vars, metaVars, registryVars, vpnVars, hlsVars, spaceVars, formatsVars>>
HlsStep ==
    /\ Only("hls") /\ HlsNext
    /\ UNCHANGED <<vars, metaVars, registryVars, vpnVars, tuiVars, spaceVars, formatsVars>>
SpaceStep ==
    /\ Only("space") /\ SpaceNext
    /\ UNCHANGED <<vars, metaVars, registryVars, vpnVars, tuiVars, hlsVars, formatsVars>>
FormatsStep ==
    /\ Only("formats") /\ FormatsNext
    /\ UNCHANGED <<vars, metaVars, registryVars, vpnVars, tuiVars, hlsVars, spaceVars>>

ServicesInit ==
    /\ focus = "none"
    /\ Init /\ MetaInit /\ RegistryInit /\ VpnInit
    /\ TuiInit /\ HlsInit /\ SpaceInit /\ FormatsInit

ServicesNext ==
    \/ Rate(Next) \/ MetaStep \/ RegistryStep \/ VpnStep \/ TuiStep \/ HlsStep \/ SpaceStep
    \/ FormatsStep

\* as FairSpec, the only component whose liveness is at stake
ServicesSpec ==
    /\ ServicesInit /\ [][ServicesNext]_all
    /\ WF_all(Rate(Tick)) /\ \A r \in Readers : WF_all(Rate(Turn(r)))
=============================================================================
