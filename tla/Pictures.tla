------------------------------- MODULE Pictures -------------------------------
(***************************************************************************)
(* The pictures of an account's identities: the objects in the bucket and  *)
(* the columns that name them (ave-server/src/routes/upload.ts), and the   *)
(* page that changes them (ave-web .../sections/Identity.svelte).          *)
(*                                                                         *)
(* A request reads the row, puts its object, deletes the object the row    *)
(* named and writes the row.  The page reads which identity is open again  *)
(* after every wait.  An upload bears the name of the object it puts.      *)
(*                                                                         *)
(* Abstracted: what an image is; a refusal before the first write is Fail. *)
(* A workspace logo is one more column (POST /workspace-logo, nothing      *)
(* clears it).  PATCH takes any URL; the page sends colours only.          *)
(***************************************************************************)
EXTENDS FiniteSets

CONSTANTS
  Ids,       \* the identities
  Before,    \* the objects at the start
  Uploads,   \* what the page does: an avatar, a banner or a colour, each once
  Removals,  \* DELETE /avatar and DELETE /banner
  Color,     \* a colour in place of a banner
  None       \* no picture

VARIABLES
  pic,       \* the columns avatar_url and banner_url
  stored,    \* the objects in the bucket
  pc,        \* next step of each request
  at,        \* the column it is about
  old,       \* what the row it has read names there
  open,      \* the identity the page shows
  shown,     \* the rows the page holds
  got,       \* the row that is on its way to the page
  meant,     \* history: the identity that was open when an avatar was chosen
  moved,     \* history: avatars that waited while the user opened another one
  lost,      \* history: objects deleted by requests that never wrote the row
  doubtful   \* history: something overlapped, failed, or happened behind the
             \* page, since the page was last loaded

Columns == Ids \X {"avatar", "banner"}
Files == Before \cup Uploads
NoRow == [k \in {"avatar", "banner"} |-> None]
Unread == <<CHOOSE i \in Ids : TRUE, "avatar">>
Requests == Uploads \cup Removals
rowVars == <<pic, stored>>
requestVars == <<pc, at, old>>
pageVars == <<open, shown, got>>
historyVars == <<meant, moved, lost, doubtful>>
vars == <<rowVars, requestVars, pageVars, historyVars>>

TypeOK ==
  /\ pic \in [Columns -> Files \cup {Color, None}] /\ stored \subseteq Files
  /\ pc \in [Requests -> {"idle", "derive", "put", "delete", "write", "color", "fetch", "show", "done"}]
  /\ at \in [Requests -> Columns] /\ old \in [Requests -> Files \cup {Color, None}]
  /\ open \in Ids /\ shown \in [Columns -> Files \cup {Color, None}]
  /\ got \in [Uploads -> [{"avatar", "banner"} -> Files \cup {Color, None}]]
  /\ meant \in [Uploads -> Ids] /\ moved \subseteq Uploads /\ lost \subseteq Files /\ doubtful \in BOOLEAN

Init ==
  /\ pic \in [Columns -> Before \cup {None}]
  /\ \A f \in Before : Cardinality({c \in Columns : pic[c] = f}) = 1
  /\ stored = Before
  /\ open = Unread[1]
  /\ pc = [r \in Requests |-> "idle"]
  /\ at = [r \in Requests |-> Unread]
  /\ old = [r \in Requests |-> None]
  /\ shown = pic
  /\ got = [u \in Uploads |-> NoRow]
  /\ meant = [u \in Uploads |-> open]
  /\ moved = {} /\ lost = {} /\ doubtful = FALSE

Busy == {r \in Requests : pc[r] \notin {"idle", "done"}}

\* A request ends, and what it has read is forgotten.
Ends(r) ==
  /\ pc' = [pc EXCEPT ![r] = "done"]
  /\ at' = [at EXCEPT ![r] = Unread]
  /\ old' = [old EXCEPT ![r] = None]

\* A request starts: alone, or over another.
Starts == doubtful' = (doubtful \/ Busy # {})

\* An identity as the server returns it.
Row(i) == [k \in {"avatar", "banner"} |-> pic[<<i, k>>]]

-----------------------------------------------------------------------------
(* What the server does.                                                   *)

\* The row, and the column of it that the request is about.
Read(r, column) ==
  /\ at' = [at EXCEPT ![r] = column]
  /\ old' = [old EXCEPT ![r] = pic[column]]

ReplacedBug(column, was) == {pic[<<column[1], k>>] : k \in {"avatar", "banner"}}

\* getKeyFromUrl: the object to delete, if the column names one.
Replaced(column, was) == {was}

AfterPut(r) == IF old[r] \in Files THEN "delete" ELSE "write"

\* uploadToR2.
Put(u) ==
  /\ pc[u] = "put"
  /\ stored' = stored \cup {u}
  /\ pc' = [pc EXCEPT ![u] = AfterPut(u)]
  /\ UNCHANGED <<pic, at, old, pageVars, historyVars>>

\* deleteFromR2, whose failure is ignored.
DeleteOld(r) ==
  /\ pc[r] = "delete"
  /\ stored' \in {stored, stored \ Replaced(at[r], old[r])}
  /\ pc' = [pc EXCEPT ![r] = "write"]
  /\ UNCHANGED <<pic, at, old, pageVars, historyVars>>

AfterWrite(u) == IF at[u][2] = "avatar" THEN "color" ELSE "fetch"

\* UPDATE identities SET avatar_url or banner_url.
Write(r) ==
  /\ pc[r] = "write"
  /\ pic' = [pic EXCEPT ![at[r]] = IF r \in Removals THEN None ELSE r]
  /\ IF r \in Removals
       THEN Ends(r)
       ELSE /\ pc' = [pc EXCEPT ![r] = AfterWrite(r)]
            /\ old' = [old EXCEPT ![r] = None]
            /\ UNCHANGED at
  /\ UNCHANGED <<stored, pageVars, historyVars>>

\* DELETE /avatar/:identityId, DELETE /banner/:identityId.
Remove(r) ==
  /\ pc[r] = "idle"
  /\ \E column \in Columns :
       /\ Read(r, column)
       /\ pc' = [pc EXCEPT ![r] = IF pic[column] \in Files THEN "delete" ELSE "write"]
  /\ doubtful' = TRUE
  /\ UNCHANGED <<rowVars, pageVars, meant, moved, lost>>

-----------------------------------------------------------------------------
(* What the page does.                                                     *)

\* The user chooses a file or a colour.
Choose(u) ==
  /\ pc[u] = "idle"
  /\ \/ /\ pc' = [pc EXCEPT ![u] = "derive"]
        /\ meant' = [meant EXCEPT ![u] = open]
        /\ UNCHANGED <<at, old>>
     \/ /\ pc' = [pc EXCEPT ![u] = "put"]
        /\ Read(u, <<open, "banner">>)
        /\ UNCHANGED meant
     \/ /\ pc' = [pc EXCEPT ![u] = "color"]
        /\ at' = [at EXCEPT ![u] = <<open, "banner">>]
        /\ UNCHANGED <<old, meant>>
  /\ Starts
  /\ UNCHANGED <<rowVars, pageVars, moved, lost>>

\* handleAvatarUpload has derived the colour and only now asks which identity.
SendAvatar(u) ==
  /\ pc[u] = "derive"
  /\ Read(u, <<open, "avatar">>)
  /\ pc' = [pc EXCEPT ![u] = "put"]
  /\ UNCHANGED <<rowVars, pageVars, historyVars>>

\* After an avatar the page asks again; a chosen colour knows its identity.
Owner(u) == IF at[u][2] = "avatar" THEN open ELSE at[u][1]

\* api.identities.update({ bannerUrl: color }): the row comes back.
PatchColor(u) ==
  /\ pc[u] = "color"
  /\ pic' = [pic EXCEPT ![<<Owner(u), "banner">>] = Color]
  /\ at' = [at EXCEPT ![u][1] = Owner(u)]
  /\ got' = [got EXCEPT ![u] = [Row(Owner(u)) EXCEPT !.banner = Color]]
  /\ pc' = [pc EXCEPT ![u] = "show"]
  /\ UNCHANGED <<stored, old, open, shown, historyVars>>

\* api.identities.get after a banner.
Fetch(u) ==
  /\ pc[u] = "fetch"
  /\ at' = [at EXCEPT ![u][1] = open]
  /\ got' = [got EXCEPT ![u] = Row(open)]
  /\ pc' = [pc EXCEPT ![u] = "show"]
  /\ UNCHANGED <<rowVars, old, open, shown, historyVars>>

UpdatedBug(u) == [shown EXCEPT ![at[u]] = got[u][at[u][2]]]

\* auth.updateIdentity: the whole row replaces the one the page holds.
Updated(u) == [c \in Columns |-> IF c[1] = at[u][1] THEN got[u][c[2]] ELSE shown[c]]

Show(u) ==
  /\ pc[u] = "show"
  /\ shown' = Updated(u)
  /\ got' = [got EXCEPT ![u] = NoRow]
  /\ Ends(u)
  /\ UNCHANGED <<rowVars, open, historyVars>>

\* Another identity of the sidebar.
Select ==
  /\ \E i \in Ids \ {open} : open' = i
  /\ moved' = moved \cup {u \in Uploads : pc[u] = "derive"}
  /\ doubtful' = (doubtful \/ Busy # {})
  /\ UNCHANGED <<rowVars, requestVars, shown, got, meant, lost>>

\* The page is loaded again: /session/bootstrap.
Reload ==
  /\ Busy = {}
  /\ shown' = pic
  /\ doubtful' = FALSE
  /\ UNCHANGED <<rowVars, requestVars, open, got, meant, moved, lost>>

\* The worker dies, the answer is lost, or the request is refused.
Fail(r) ==
  /\ r \in Busy
  /\ Ends(r)
  /\ got' = [u \in Uploads |-> IF u = r THEN NoRow ELSE got[u]]
  /\ lost' = IF pc[r] = "write" THEN lost \cup ({old[r]} \cap (Files \ stored)) ELSE lost
  /\ doubtful' = TRUE
  /\ UNCHANGED <<rowVars, open, shown, meant, moved>>

-----------------------------------------------------------------------------
Next ==
  \/ \E u \in Uploads :
       Choose(u) \/ SendAvatar(u) \/ Put(u) \/ PatchColor(u) \/ Fetch(u) \/ Show(u)
  \/ \E r \in Removals : Remove(r)
  \/ \E r \in Requests : DeleteOld(r) \/ Write(r) \/ Fail(r)
  \/ Select \/ Reload

Spec == Init /\ [][Next]_vars

-----------------------------------------------------------------------------
(* Properties.                                                             *)

\* A column never names an object that is gone, however uploads and removals
\* interleave, except while the request that deleted it is about to replace
\* it, or because that request never came to.
PicturesStand ==
  \A c \in Columns :
    pic[c] \in Files \ stored =>
      pic[c] \in lost \/ \E r \in Requests : pc[r] = "write" /\ at[r] = c /\ old[r] = pic[c]

\* When nothing overlapped, failed or was switched since the page was loaded,
\* a page at rest shows what the rows say; and an avatar that was sent before the
\* user opened another identity is a picture of the one it was chosen for.
LoneChangesShown ==
  /\ ~doubtful /\ Busy = {} => shown = pic
  /\ \A u \in Uploads \ moved, i \in Ids : pic[<<i, "avatar">>] = u => i = meant[u]
=============================================================================
