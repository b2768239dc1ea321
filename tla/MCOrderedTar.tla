---------------------------- MODULE MCOrderedTar ----------------------------
(* Two small bundles, each with every tier A of up to three paths that exist *)
(* in it, and one that is gone, or of up to two, spelled in either of two    *)
(* forms, and with all the other files in tier B;                            *)
(* archives of two layers, with every upper layer of up to two members over  *)
(* lower layers that differ in what the name g is; and archives of one layer *)
(* of every layout, command and Dockerfile, patched up to twice.             *)
EXTENDS BuildImage

CONSTANTS a, b, f, g, w, plain, odd

MCName == {a, b, f, g, w}
MCForms == {plain, odd}
MCShim == <<a, w>>

(* /a, a directory with a file and a directory; /b, a link to /a, or to /a/b. *)
Tree1 == (<<a>> :> "dir") @@ (<<a, f>> :> "file") @@ (<<a, b>> :> "dir")
         @@ (<<a, b, g>> :> "file") @@ (<<b>> :> "link")
(* /a, an empty directory; /f, a file; /a/g, a pipe; /a/b, a dangling link.   *)
Tree2 == (<<a>> :> "dir") @@ (<<f>> :> "file") @@ (<<a, g>> :> "special")
         @@ (<<a, b>> :> "link") @@ (<<g>> :> "dir")

Below(t) ==
  IF t = Tree1
    THEN (<<b, f>> :> "file") @@ (<<b, b>> :> "dir") @@ (<<b, b, g>> :> "file")
    ELSE <<>>

Gone == <<f, f>>

(* _all_files sorts; any fixed order does. *)
Order1 == <<Plain(<<a, b, g>>), Plain(<<a, f>>), Plain(<<b>>)>>
Order2 == <<Plain(<<a, b>>), Plain(<<f>>)>>
Rest(t, s) == SelectSeq(IF t = Tree1 THEN Order1 ELSE Order2, LAMBDA e : e \notin ToSet(s))

Bundle(t, tierA, tierB) ==
  [kind |-> t @@ Below(t), real |-> DOMAIN t,
   size |-> [p \in DOMAIN (t @@ Below(t)) |-> Len(p)], tierA |-> tierA, tierB |-> tierB]

Paths(t) == DOMAIN (t @@ Below(t)) \union {Gone}
Plainly(t) == {Plain(p) : p \in Paths(t) \union {<<>>}}
TiersOf(t) ==
  UNION {[1..n -> Plainly(t)] : n \in 0..3}
    \union UNION {[1..n -> [path : Paths(t), form : MCForms]] : n \in 1..2}

MCBundles ==
  UNION {{Bundle(t, s, Rest(t, s)) : s \in TiersOf(t)} : t \in {Tree1, Tree2}}

Of(kind, p, to) == [kind |-> kind, path |-> p, to |-> to]
LowerLayer(g_) == <<Of("dir", <<a>>, <<>>), Of("file", <<a, f>>, <<>>), g_>>
LowerLayers ==
  {LowerLayer(g_) : g_ \in {Of("file", <<g>>, <<>>), Of("hard", <<g>>, <<a, f>>)}
     \union {Of("link", <<g>>, p) : p \in {<<a>>, <<a, f>>, <<a, b>>}}}

Members ==
  {Of("dir", p, <<>>) : p \in {<<a>>, <<a, b>>, <<g>>}}
    \union {Of(k, p, <<>>) : k \in {"file", "white"}, p \in {<<a>>, <<a, b>>, <<a, f>>, <<g>>}}
    \union {Of("link", p, to) : p \in {<<a>>, <<a, b>>, <<g>>}, to \in {<<a>>, <<a, f>>}}
    \union {Of("hard", p, <<a, f>>) : p \in {<<a, b>>, <<g>>}}
    \union {Of("opaque", p, <<>>) : p \in {<<>>, <<a>>}}

UpperLayers == {l \in UNION {[1..n -> Members] : n \in 1..2} : L!WellMade(l)}

Says == [ep : {<<>>, <<"run">>}, cmd : {<<>>, <<"it">>}]

MCArchives ==
  {[Empty EXCEPT !.layers = <<l, u>>] : l \in LowerLayers, u \in UpperLayers}
    \union [layout : {"oci", "docker", "dual"}, command : Says, dockerfile : Says,
            layers : {<<LowerLayer(Of("file", <<g>>, <<>>))>>}, patches : 0..2]
=============================================================================
