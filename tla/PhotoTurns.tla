----------------------------- MODULE PhotoTurns -----------------------------
(***************************************************************************)
(* The way of a photo into an answer: the picker and its mailbox file, the *)
(* chip beside the input (native/Attach.cpp), the tag that Enter writes    *)
(* into the message, the relay file last_image.txt, and what a generation  *)
(* takes of them (native/InferenceEngine.cpp:196-235).  A photo is there   *)
(* or not; all photos have one file name.                                  *)
(***************************************************************************)
EXTENDS ChatHistory

VARIABLES
    waiting,    \* waiting_: the mailbox is looked at
    mailbox,    \* picked_image.txt is there
    chip,       \* attached_path_ is set
    relay,      \* last_image.txt is there
    tagIn,      \* the input has an "[image: ]" tag
    tagged,     \* the messages that have one
    asked,      \* the message this turn answers
    prompt,     \* the tag is in the prompt of this turn
    eye,        \* where the generation under way has its photo from
    drafter     \* the thread of /draft is "off", or about to "look"

mailVars == <<waiting, mailbox>>
textVars == <<tagIn, tagged, asked, prompt>>
photoVars == <<mailVars, chip, relay, textVars, eye, drafter>>
vars == <<historyVars, photoVars>>

\* Types; a message with a tag has been said.
TypeOK ==
    /\ HistoryTypeOK
    /\ waiting \in BOOLEAN /\ mailbox \in BOOLEAN
    /\ chip \in BOOLEAN /\ relay \in BOOLEAN
    /\ tagIn \in BOOLEAN /\ prompt \in BOOLEAN
    /\ tagged \subseteq 1..said /\ asked \in 0..said
    /\ eye \in {"unset", "none", "chip", "relay", "tag", "done"}
    /\ drafter \in {"off", "look"}

Init ==
    /\ HistoryInit
    /\ waiting = FALSE /\ mailbox = FALSE
    /\ chip = FALSE /\ relay = FALSE
    /\ tagIn = FALSE /\ tagged = {} /\ asked = 0 /\ prompt = FALSE
    /\ eye = "unset" /\ drafter = "off"

-----------------------------------------------------------------------------
(* The render loop and the activity. *)

\* The "+" button.
OpenPicker ==
    /\ waiting' = TRUE
    /\ UNCHANGED <<historyVars, mailbox, chip, relay, textVars, eye, drafter>>

\* The activity has stored the photo and writes its path.
Pick ==
    /\ mailbox' = TRUE
    /\ UNCHANGED <<historyVars, waiting, chip, relay, textVars, eye, drafter>>

TakePhoto ==
    /\ waiting /\ mailbox
    /\ waiting' = FALSE /\ mailbox' = FALSE
    /\ chip' = TRUE /\ relay' = TRUE
    /\ UNCHANGED <<historyVars, textVars, eye, drafter>>

\* Sixty seconds have gone by.
GiveUp ==
    /\ waiting
    /\ waiting' = FALSE
    /\ UNCHANGED <<historyVars, mailbox, chip, relay, textVars, eye, drafter>>

\* The X on the chip.
ClearAttachment ==
    /\ chip
    /\ chip' = FALSE
    /\ UNCHANGED <<historyVars, mailVars, relay, textVars, eye, drafter>>

-----------------------------------------------------------------------------
(* The UI thread. *)

\* The text field knows nothing of tags.
TypeText ==
    /\ Type
    /\ tagIn' = FALSE
    /\ UNCHANGED <<mailVars, chip, relay, tagged, asked, prompt, eye, drafter>>

\* nativeOnEnter: the chip becomes a tag, except while an answer is under way.
PressEnter ==
    /\ Enter(chip)
    /\ tagIn' = (tagIn \/ (chip /\ chat = "IDLE"))
    /\ chip' = FALSE
    /\ UNCHANGED <<mailVars, relay, tagged, asked, prompt, eye, drafter>>

\* What is said next has the tag of the input.
Tags(n) == tagged' = tagged \cup (IF tagIn /\ n > 0 THEN {said + 1} ELSE {})

\* /draft says two messages and starts its thread; "Still drafting..." are two.
RunCommand(n) ==
    /\ drafter = "look" => n = 2
    /\ Command(n)
    /\ Tags(n)
    /\ tagIn' = FALSE
    /\ \/ UNCHANGED drafter
       \/ n = 2 /\ drafter = "off" /\ drafter' = "look"
    /\ UNCHANGED <<mailVars, chip, relay, asked, prompt, eye>>

\* Nothing else is said while a draft is under way (PatchExecutor::busy).
SendIt ==
    /\ drafter = "off"
    /\ SayIt
    /\ Tags(1)
    /\ asked' = said + 1
    /\ UNCHANGED <<mailVars, chip, relay, tagIn, prompt, eye, drafter>>

HasTag(messages) == tagged \cap messages # {}

WritePrompt ==
    /\ BuildPrompt
    /\ prompt' = HasTag(Range(history))
    /\ UNCHANGED <<mailVars, chip, relay, tagIn, tagged, asked, eye, drafter>>

EmptyInput ==
    /\ ClearInput \/ ClearEdit
    /\ tagIn' = FALSE
    /\ UNCHANGED <<mailVars, chip, relay, tagged, asked, prompt, eye, drafter>>

-----------------------------------------------------------------------------
(* Generations: of a summary, of an answer, of a draft. *)

\* The summary is of old messages, which may have a tag, too.
TextTag ==
    IF worker = "summarise" THEN HasTag(oldText.first .. oldText.last) ELSE prompt

\* Mutant: the tag in the text is not looked for.
ChooseNoTag ==
    /\ worker \in {"summarise", "stream"} /\ eye = "unset"
    /\ eye' = IF chip THEN "chip" ELSE IF relay THEN "relay" ELSE "none"
    /\ UNCHANGED <<historyVars, mailVars, chip, relay, textVars, drafter>>

\* The chip, the relay, the tag: in this order.
Choose ==
    /\ worker \in {"summarise", "stream"} /\ eye = "unset"
    /\ eye' = IF chip THEN "chip" ELSE IF relay THEN "relay"
              ELSE IF TextTag THEN "tag" ELSE "none"
    /\ UNCHANGED <<historyVars, mailVars, chip, relay, textVars, drafter>>

\* The relay goes when the eyes open; they may stay shut.
Look ==
    /\ eye \in {"chip", "relay", "tag"}
    /\ eye' = "done"
    /\ relay' \in {relay, FALSE}
    /\ UNCHANGED <<historyVars, mailVars, chip, textVars, drafter>>

\* The draft's generation goes through the same choice.
DraftLooks ==
    /\ drafter = "look"
    /\ drafter' = "off"
    /\ relay' \in {relay, FALSE}
    /\ UNCHANGED <<historyVars, mailVars, chip, textVars, eye>>

Speak ==
    /\ eye \in {"none", "done"}
    /\ \E p \in Pieces : Token(p)
    /\ UNCHANGED photoVars

\* generate returns, at its first look at the engine or when it is through.
Return ==
    /\ eye \in {"unset", "none", "done"}
    /\ Summarise \/ Returned
    /\ eye' = "unset"
    /\ UNCHANGED <<mailVars, chip, relay, textVars, drafter>>

\* What has nothing to do with a photo; /save is left out (the application does
\* not come back from it).
Other ==
    /\ \/ Refuse \/ StartWorker
       \/ Measure \/ Fold \/ ClearStreaming \/ Push \/ Finish
       \/ AddMessage \/ FrameStep
    /\ UNCHANGED photoVars

-----------------------------------------------------------------------------
PickerStep == OpenPicker \/ Pick \/ TakePhoto \/ GiveUp \/ ClearAttachment

JavaStep ==
    \/ TypeText \/ PressEnter \/ (\E n \in 0..2 : RunCommand(n))
    \/ SendIt \/ WritePrompt \/ EmptyInput

Next == PickerStep \/ JavaStep \/ Choose \/ Look \/ DraftLooks \/ Speak \/ Return \/ Other

Spec == Init /\ [][Next]_vars

-----------------------------------------------------------------------------
\* A photo that was sent with a message is taken by the generation of its
\* answer, though the summary that is generated before it (ChatEngine.cpp:158)
\* may have used up the relay, and the chip is gone since Enter.
SentPhotoTaken ==
    worker = "stream" /\ eye = "none" => asked \notin tagged
=============================================================================
