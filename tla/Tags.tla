---------------------------- MODULE Tags ----------------------------
(***************************************************************************)
(* The tags of notes and the registry of all tags, kept in two tables that *)
(* every operation must change together: adding, removing, renaming and    *)
(* moving tags, replacing part of them, and dropping the unused ones.      *)
(*                                                                         *)
(* A tag is the sequence of its components.  The tags of a note are a set: *)
(* their order is left out, and so is the repetition a rename can leave in *)
(* the stored text.  Case is left out, and so are blank tags, which are    *)
(* refused, and the collapsed state, which is not undoable.                *)
(***************************************************************************)
EXTENDS Decks

\* Every tag that is not in the registry yet is registered.
canonify_tags(c, tags) ==
    FoldSet(LAMBDA tag, d : IF Has(d, "tags", tag) THEN d ELSE AddRow(d, "tags", tag, TRUE), c, tags)

NoteTags(c, nid) == c.notes[nid].tags
UpdateTags(c, nid, tags) == Retag(c, nid, tags)
RemoveTags(c, tags) == FoldSet(LAMBDA tag, d : RemoveRow(d, "tags", tag), c, tags)

----------------------------------------------------------------------------
(* Matching: a tag or any tag below it; the first listed prefix counts. *)

is_match(tag, prefixes) == \E n \in DOMAIN prefixes : IsPrefix(prefixes[n], tag)
MatchedPrefix(tag, prefixes) ==
    prefixes[CHOOSE n \in DOMAIN prefixes :
                /\ IsPrefix(prefixes[n], tag)
                /\ \A m \in 1..(n - 1) : ~IsPrefix(prefixes[m], tag)]
Matched(tags, prefixes) == {t \in tags : is_match(t, prefixes)}
MatchedNotes(c, prefixes) ==
    {n \in DOMAIN c.notes : Matched(NoteTags(c, n), prefixes) # {}}

\* The matched tags with their prefixes replaced by New(prefix).
Replaced(tags, prefixes, New(_)) ==
    {LET p == MatchedPrefix(t, prefixes) IN New(p) \o SubSeq(t, Len(p) + 1, Len(t)) :
        t \in Matched(tags, prefixes)}

----------------------------------------------------------------------------
(* The operations. *)

add_tags_to_notes(c, nids, tags) ==
    ForEach(LAMBDA d, n : UpdateTags(d, n, NoteTags(d, n) \union tags),
            canonify_tags(c, tags),
            {n \in nids \intersect DOMAIN c.notes : ~(tags \subseteq NoteTags(c, n))})

remove_tags_from_notes(c, nids, prefixes) ==
    ForEach(LAMBDA d, n : UpdateTags(d, n, NoteTags(d, n) \ Matched(NoteTags(d, n), prefixes)),
            c, nids \intersect MatchedNotes(c, prefixes))

remove_tags(c, prefixes) ==
    remove_tags_from_notes(RemoveTags(c, Matched(DOMAIN c.tags, prefixes)),
                           DOMAIN c.notes, prefixes)

clear_unused_tags(c) ==
    RemoveTags(c, DOMAIN c.tags \ UNION {NoteTags(c, n) : n \in DOMAIN c.notes})

\* Shared by renaming and moving.  Nothing is done if no note has the tag, even if
\* the registry does; the new names are registered last, from the notes alone.
ReplaceTags(c, prefixes, New(_)) ==
    LET nids == MatchedNotes(c, prefixes)
        Rewrite(d, n) ==
            LET tags == NoteTags(d, n)
            IN UpdateTags(d, n, (tags \ Matched(tags, prefixes)) \union Replaced(tags, prefixes, New))
        written == ForEach(Rewrite, RemoveTags(c, Matched(DOMAIN c.tags, prefixes)), nids)
    IN IF nids = {} THEN c
       ELSE canonify_tags(written, UNION {Replaced(NoteTags(c, n), prefixes, New) : n \in nids})

rename_tag(c, old, new) == ReplaceTags(c, <<old>>, LAMBDA p : new)

\* A tag is moved as a deck is: not into itself, nor to where it is.
tag_reparented_name(tag, target) == reparented_name(tag, target)
old_to_new_names(tags, target) ==
    [t \in {u \in ToSet(tags) : tag_reparented_name(u, target) # u} |-> tag_reparented_name(t, target)]

\* Moving several tags of which one stays where it is fails when a note has it.
reparent_unwraps_none(c, tags, target) ==
    /\ DOMAIN old_to_new_names(tags, target) # {}
    /\ \E n \in DOMAIN c.notes : \E t \in Matched(NoteTags(c, n), tags) :
           MatchedPrefix(t, tags) \notin DOMAIN old_to_new_names(tags, target)

reparent_tags(c, tags, target) ==
    IF DOMAIN old_to_new_names(tags, target) = {} THEN c
    ELSE ReplaceTags(c, tags, LAMBDA p : old_to_new_names(tags, target)[p])

\* `search` is replaced in every component it equals; the result is registered.
replace_tag(tag, search, replacement) ==
    [n \in DOMAIN tag |-> IF tag[n] = search THEN replacement ELSE tag[n]]

find_and_replace_tag(c, nids, search, replacement) ==
    LET Rewrite(d, n) ==
            LET tags == {replace_tag(t, search, replacement) : t \in NoteTags(d, n)}
            IN UpdateTags(canonify_tags(d, tags), n, tags)
    IN ForEach(Rewrite, c, {n \in nids \intersect DOMAIN c.notes :
                                \E t \in NoteTags(c, n) : search \in Range(t)})
=============================================================================
