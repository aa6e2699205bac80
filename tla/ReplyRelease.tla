---------------------------- MODULE ReplyRelease ----------------------------
(***************************************************************************)
(* What the reply workflow promises, without rows, locks or transactions:  *)
(* a text is worked on until somebody other than its author releases it,   *)
(* and what was released is that text, once and for good.                  *)
(***************************************************************************)
CONSTANTS Users,       \* people who write and release texts
          Replies,     \* the replies being worked on
          Texts,       \* texts with their authors: records with a field author
          NoText,      \* a reply nobody has written yet
          NotReleased  \* a reply that has not gone out

VARIABLES text,        \* the current text of each reply
          release      \* what went out for each reply, and on whose word

Released == [text : Texts, approver : Users]

Init ==
    /\ text = [r \in Replies |-> NoText]
    /\ release = [r \in Replies |-> NotReleased]

\* Someone, or the generator, writes a new text for a reply not yet released.
Compose(r, t) ==
    /\ release[r] = NotReleased
    /\ text' = [text EXCEPT ![r] = t]
    /\ UNCHANGED release

\* Someone other than the author of the current text releases it as it stands.
Release(r, u) ==
    /\ release[r] = NotReleased
    /\ text[r] \in Texts
    /\ text[r].author # u
    /\ release' = [release EXCEPT ![r] = [text |-> text[r], approver |-> u]]
    /\ UNCHANGED text

Next ==
    \E r \in Replies :
        \/ \E t \in Texts : Compose(r, t)
        \/ \E u \in Users : Release(r, u)

Spec == Init /\ [][Next]_<<text, release>>
=============================================================================
