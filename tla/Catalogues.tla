----------------------------- MODULE Catalogues -----------------------------
(***************************************************************************)
(* The plugin store's list.  Three fetchers (Stream Dock, OpenDeck and the *)
(* Mirabox repository on GitHub) each show a cached or bundled list first, *)
(* then fetch a live one, which replaces the cache and their rows of       *)
(* PluginCatalogModel.  Answers may fail, and the user may switch the      *)
(* online catalogue off while one is awaited.                              *)
(***************************************************************************)
EXTENDS Naturals, Sequences, FiniteSets, SequencesExt

CONSTANTS
  Pages,        \* what the Stream Dock server lists, page by page: records
  Archive,      \* what the OpenDeck server lists: records
  Repository,   \* what the Mirabox repository lists: records
  Bundled,      \* [{"streamdock", "opendeck"} -> the rows shipped with the program]
  Fixture,      \* the rows of the program's own
  Codename,     \* the device codes the catalogue's codes stand for
  DeadHosts,    \* hosts whose icons are not asked for
  Queries,      \* the words the user searches for; NoText for none
  MaxPages,     \* kMaxPages
  MaxRefreshes  \* bound: refreshes and switches

Sources == {"streamdock", "opendeck", "mirabox-github"}
NoText  == "-"
NoUrl   == [scheme |-> NoText, host |-> NoText]
AppIcon == [scheme |-> "qrc", host |-> NoText]

VARIABLES fetcher,   \* [Sources -> [state, disabled, awaits, rows, pages]]
          cache,     \* [Sources -> the rows of the snapshot on disk]
          rows,      \* PluginCatalogModel::m_rows
          marked,    \* the uuids m_install says are installed
          online,    \* m_onlineCatalogEnabled
          complete,  \* history: the last whole list each server gave
          refreshes
vars == <<fetcher, cache, rows, marked, online, complete, refreshes>>

-----------------------------------------------------------------------------
(* From the servers' records to rows                                       *)

FilterMap(Keep(_), Row(_), s) ==
  LET kept == SelectSeq(s, Keep) IN [i \in DOMAIN kept |-> Row(kept[i])]

Https(url) == IF url.scheme = "https" THEN url ELSE NoUrl

\* A code the program does not know is dropped; each code counts once.
MapUpstreamDevices(codes) ==
  FoldLeft(LAMBDA known, c : IF c \in DOMAIN Codename /\ Codename[c] \notin Range(known)
                             THEN Append(known, Codename[c]) ELSE known,
           <<>>, codes)

\* The first kind is the category, all of them are the tags.
TranslateRecord(r) ==
  LET kinds == SelectSeq(r.types, LAMBDA t : t # NoText)
  IN [uuid |-> <<"streamdock", r.name, r.id>>, name |-> r.name, product |-> r.id,
      category |-> IF kinds = <<>> THEN "streaming" ELSE kinds[1],
      tags |-> kinds, devices |-> MapUpstreamDevices(r.devices),
      icon |-> IF r.icon.scheme = "https" THEN r.icon ELSE AppIcon,
      download |-> Https(r.download), source |-> "streamdock"]

Translatable(r) ==
  r.id # NoText /\ r.name # NoText /\ MapUpstreamDevices(r.devices) # <<>>

TranslateEntry(r) ==
  [uuid |-> <<"opendeck", r.id>>, name |-> r.name, product |-> NoText,
   category |-> NoText, tags |-> <<"stream-deck", "opendeck">>, devices |-> <<>>,
   icon |-> IF r.icon.host \in DeadHosts THEN NoUrl ELSE r.icon,
   download |-> Https(IF r.download = NoUrl THEN r.download_url ELSE r.download),
   source |-> "opendeck"]

EntryFromDir(r) ==
  [uuid |-> IF r.dotted THEN <<r.name>> ELSE <<"mirabox", r.name>>,
   name |-> r.name, product |-> r.path, category |-> "mirabox", tags |-> <<>>,
   devices |-> <<>>, icon |-> AppIcon, download |-> NoUrl,
   source |-> "mirabox-github"]

StreamdockRows(records) == FilterMap(Translatable, TranslateRecord, records)
OpenDeckRows(records) ==
  FilterMap(LAMBDA r : r.id # NoText /\ r.name # NoText, TranslateEntry, records)
MiraboxRows(records) ==
  FilterMap(LAMBDA r : r.type = "dir" /\ r.name # NoText /\ r.path # NoText,
            EntryFromDir, records)

\* What a snapshot on disk gives back: the Stream Dock's has no archive
\* address, OpenDeck's no devices, category or product, Mirabox's no devices.
Reread(s, list) ==
  [i \in DOMAIN list |->
     CASE s = "streamdock" -> [list[i] EXCEPT !.download = NoUrl]
       [] s = "opendeck"   -> [list[i] EXCEPT !.devices = <<>>, !.category = NoText,
                                              !.product = NoText]
       [] OTHER            -> [list[i] EXCEPT !.devices = <<>>, !.download = NoUrl]]

-----------------------------------------------------------------------------
(* The model                                                               *)

\* The emitted rows replace those of their source, and what was installed is
\* forgotten of a row that is no longer listed.
Replaced(list, s, new) == SelectSeq(list, LAMBDA e : e.source # s) \o new
Uuids(list) == {list[i].uuid : i \in DOMAIN list}

\* One fetcher's refresh: what it shows at once, whether it goes on to ask.
Fallback(s) ==
  IF cache[s] # <<>> THEN [state |-> "cached", rows |-> cache[s]]
  ELSE [state |-> "offline", rows |-> IF s \in DOMAIN Bundled THEN Bundled[s] ELSE <<>>]

Shows(s, disabled) == s # "mirabox-github" \/ cache[s] # <<>> \/ disabled

Refreshed(s, disabled) ==
  IF fetcher[s].state = "loading" THEN [fetcher[s] EXCEPT !.disabled = disabled]
  ELSE IF disabled THEN [fetcher[s] EXCEPT !.disabled = TRUE,
                                           !.state = Fallback(s).state]
  ELSE [state |-> "loading", disabled |-> FALSE, awaits |-> 1, rows |-> <<>>, pages |-> 0]

RefreshAll(from, disabled) ==
  LET quiet == {s \in Sources : fetcher[s].state # "loading" /\ Shows(s, disabled)}
      Next(list, s) == IF s \in quiet THEN Replaced(list, s, Fallback(s).rows) ELSE list
      all == Next(Next(Next(from, "streamdock"), "opendeck"), "mirabox-github")
  IN /\ fetcher' = [s \in Sources |-> Refreshed(s, disabled)]
     /\ rows' = all
     /\ marked' = {u \in marked : u \in Uuids(from) /\ u \in Uuids(all)}
     /\ UNCHANGED <<cache, complete>>

Bounded == refreshes < MaxRefreshes /\ refreshes' = refreshes + 1

\* The program's own rows come back first.
Reload ==
  /\ Bounded
  /\ RefreshAll(Fixture, ~online)
  /\ UNCHANGED online

RefreshOnline ==
  /\ online
  /\ Bounded
  /\ RefreshAll(rows, FALSE)
  /\ UNCHANGED online

\* Switching off leaves the requests under way, and the pages after them.
SetOnlineCatalogEnabled(on) ==
  /\ online # on
  /\ Bounded
  /\ online' = on
  /\ IF on THEN RefreshAll(rows, FALSE)
     ELSE UNCHANGED <<fetcher, cache, rows, marked, complete>>

Marks(u) ==
  /\ u \in Uuids(rows) \ marked
  /\ Bounded
  /\ marked' = marked \cup {u}
  /\ UNCHANGED <<fetcher, cache, rows, online, complete>>

Emit(s, state, list) ==
  /\ fetcher' = [fetcher EXCEPT ![s].state = state, ![s].awaits = 0]
  /\ rows' = Replaced(rows, s, list)
  /\ marked' = marked \cap Uuids(Replaced(rows, s, list))

Settle(s, state) ==
  /\ fetcher' = [fetcher EXCEPT ![s].state = state, ![s].awaits = 0]
  /\ UNCHANGED <<rows, marked, cache, complete>>

\* The cache is written first; a write that fails is not told.
Commit(s, list) ==
  /\ \/ cache' = [cache EXCEPT ![s] = Reread(s, list)]
     \/ UNCHANGED cache
  /\ complete' = [complete EXCEPT ![s] = list]
  /\ Emit(s, "online", list)

Awaited(s) == fetcher[s].awaits > 0
Kept == UNCHANGED <<online, refreshes>>

\* The next page goes to the address of the moment: "disabled" is none, and the
\* fetcher then stays as it is, loading.
OnPageFinished ==
  LET f == fetcher["streamdock"]
      pages == IF f.pages # 0 THEN f.pages
               ELSE IF Len(Pages) < MaxPages THEN Len(Pages) ELSE MaxPages
      list == f.rows \o StreamdockRows(Pages[f.awaits])
  IN /\ Awaited("streamdock") /\ Kept
     /\ IF f.awaits + 1 <= pages
        THEN /\ fetcher' = [fetcher EXCEPT !["streamdock"].rows = list,
                              !["streamdock"].pages = pages,
                              !["streamdock"].awaits = IF f.disabled THEN 0 ELSE @ + 1]
             /\ UNCHANGED <<cache, rows, marked, complete>>
        ELSE Commit("streamdock", list)

\* No answer, no JSON or no list: the rows already shown stay.
OnPageFailed ==
  LET got == fetcher["streamdock"].rows # <<>>
  IN /\ Awaited("streamdock") /\ Kept
     /\ \/ Settle("streamdock", IF got \/ cache["streamdock"] # <<>> THEN "cached" ELSE "offline")
        \/ Settle("streamdock", IF got THEN "cached" ELSE "offline")

OnArchiveFinished ==
  /\ Awaited("opendeck") /\ Kept
  /\ \/ OpenDeckRows(Archive) # <<>> /\ Commit("opendeck", OpenDeckRows(Archive))
     \/ /\ Emit("opendeck", Fallback("opendeck").state, Fallback("opendeck").rows)
        /\ UNCHANGED <<cache, complete>>

OnListingFinished ==
  /\ Awaited("mirabox-github") /\ Kept
  /\ \/ MiraboxRows(Repository) # <<>> /\ Commit("mirabox-github", MiraboxRows(Repository))
     \/ Settle("mirabox-github", Fallback("mirabox-github").state)

-----------------------------------------------------------------------------
(* The list the user sees                                                  *)

FilterAcceptsRow(e, tab, query) ==
  /\ tab \in Sources => e.source = tab
  /\ tab = "installed" => e.uuid \in marked
  /\ query # NoText => query = e.name \/ query \in Range(e.tags)

Shown(tab, query) == SelectSeq(rows, LAMBDA e : FilterAcceptsRow(e, tab, query))

\* The first list is shown as the model is made.
Init ==
  /\ online \in BOOLEAN
  /\ cache = [s \in Sources |-> <<>>]
  /\ fetcher = [s \in Sources |-> [state |-> IF online THEN "loading" ELSE "offline",
                                   disabled |-> ~online,
                                   awaits |-> IF online THEN 1 ELSE 0,
                                   rows |-> <<>>, pages |-> 0]]
  /\ rows = Fixture \o Bundled["streamdock"] \o Bundled["opendeck"]
  /\ marked = {}
  /\ complete = [s \in Sources |-> <<>>] /\ refreshes = 0

Next ==
  \/ Reload \/ RefreshOnline
  \/ \E on \in BOOLEAN : SetOnlineCatalogEnabled(on)
  \/ \E u \in Uuids(rows) : Marks(u)
  \/ OnPageFinished \/ OnPageFailed \/ OnArchiveFinished \/ OnListingFinished

-----------------------------------------------------------------------------
TypeOK ==
  /\ \A s \in Sources : /\ fetcher[s].state \in {"loading", "cached", "offline", "online"}
                        /\ fetcher[s].awaits \in 0 .. MaxPages
                        /\ DOMAIN cache[s] = 1 .. Len(cache[s])
  /\ marked \subseteq Uuids(rows) /\ online \in BOOLEAN

(* The rows of a source are always one whole list, never a page short, a   *)
(* page twice or a mixture: an "online" source shows the last whole list   *)
(* of its server, every other one that list, the snapshot or the bundle;   *)
(* what the disk keeps is the last list a write succeeded for, and no row  *)
(* is listed twice; and what is marked installed is exactly what the tab   *)
(* of the installed ones can show.                                         *)
ListsAreWhole ==
  /\ \A s \in Sources :
       LET mine == SelectSeq(rows, LAMBDA e : e.source = s)
           whole == CASE s = "streamdock" ->
                           StreamdockRows(FlattenSeq(SubSeq(Pages, 1,
                             IF Len(Pages) < MaxPages THEN Len(Pages) ELSE MaxPages)))
                      [] s = "opendeck" -> OpenDeckRows(Archive)
                      [] OTHER -> MiraboxRows(Repository)
       IN /\ fetcher[s].state = "online" => mine = complete[s]
          /\ complete[s] \in {<<>>, whole}
          /\ cache[s] \in {<<>>, Reread(s, whole)}
          /\ mine \in {complete[s], cache[s], <<>>}
                        \cup (IF s \in DOMAIN Bundled THEN {Bundled[s]} ELSE {})
          /\ Cardinality(Uuids(mine)) = Len(mine)
          /\ fetcher[s].awaits > 0 => fetcher[s].state = "loading"
          /\ Shown(s, NoText) = mine
  /\ \A q \in Queries :
       Uuids(Shown("installed", q)) = marked \cap Uuids(Shown("all", q))
=============================================================================
