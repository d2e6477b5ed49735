-------------------------------- MODULE News --------------------------------
(***************************************************************************)
(* chrome://news: the page (resources/news/js/news.js) and the browser side   *)
(* that answers its chrome.send messages (ui/webui/news/news.cc).            *)
(*                                                                         *)
(* The page asks for its language, then for the news in that language, then  *)
(* for one image per story.  A slider shows one story at a time and moves on  *)
(* by a chain of timers or by a click.  The browser asks the cookie manager   *)
(* about the language, in order; a call that finds no cookie manager is never  *)
(* answered.  It fetches news and images by independent loaders: their        *)
(* answers come in any order, or fail.                                      *)
(*                                                                         *)
(* Abstractions.  Time is counted in ticks, and what the page compares is     *)
(* differences: since is Date.now() - last_slide_, and a timer is the number  *)
(* of ticks left to it, negative when it is late.  A story is its place in    *)
(* the list and the language of the list; texts and links are left out.  The   *)
(* languages of the menu are those that filter_lang lets pass, so it changes  *)
(* none that is to be set; a cookie holds no other.                          *)
(***************************************************************************)
EXTENDS Integers, Sequences, FiniteSets

CONSTANTS
    Langs,           \* the languages of the menu
    English,         \* the language before a choice
    RtlLangs,        \* those written from right to left: "ar"
    NoLang,          \* no language: nothing shown, nothing chosen, no cookie
    SavedCookies,    \* what the cookie may hold when the page opens
    SlideInterval,   \* slide_interval_
    MaxLateness,     \* bound: ticks a timer may be late
    MaxStories,      \* bound: stories in an answer
    MaxChoices       \* bound: choices of a language

ASSUME ConstantsAssumption ==
    /\ English \in Langs /\ NoLang \notin Langs /\ RtlLangs \subseteq Langs
    /\ SavedCookies \subseteq Langs \cup {NoLang}
    /\ SlideInterval \in Nat /\ SlideInterval >= 2
    /\ MaxLateness \in Nat /\ MaxStories \in Nat /\ MaxChoices \in Nat

VARIABLES
    lang_,       \* language the page asks news in
    title,       \* language the button names
    rtl,         \* body has the class rtl
    open,        \* the language menu is open
    slides,      \* image of each slide: the language of its news, or NoLang
    active,      \* the slide with the class active, 0 when there is none
    shown,       \* the news the slides show: language and number of the request
    since,       \* Date.now() - last_slide_
    timers,      \* ticks left to each pending setTimeout of the slider
    calls,       \* questions to the cookie manager, answered in order
    fetches,     \* loads of news and images, answered in any order
    cookie,      \* cookie newslang
    requested,   \* number of requests for news so far
    choices,     \* number of choices so far
    chosen,      \* history: last choice
    crossed,     \* history: the answer to getlang came after a choice
    outcome,     \* history: what became of the last call so far
    late         \* history: slides that got an image of older news

sliderVars == <<since, timers>>
slideVars  == <<slides, active, shown, late>>
langVars   == <<lang_, title, rtl, open>>
webVars    == <<calls, fetches, cookie, requested>>
pastVars   == <<choices, chosen, crossed, outcome>>
vars       == <<langVars, slideVars, sliderVars, webVars, pastVars>>

Requests  == 0 .. (MaxChoices + 1)
Call      == [kind : {"getlang", "setlang"}, lang : Langs]
NewsFetch(lang, request) == [kind |-> "news", lang |-> lang, request |-> request, slot |-> 0]
ImageFetch(lang, request, slot) ==
    [kind |-> "image", lang |-> lang, request |-> request, slot |-> slot]
Fetch     == [kind : {"news", "image"}, lang : Langs, request : Requests, slot : 0 .. MaxStories]

\* Each variable holds a value of its kind; a slide is active whenever there are slides,
\* and there is one chain of timers.
TypeOK ==
    /\ lang_ \in Langs /\ title \in Langs /\ rtl \in BOOLEAN /\ open \in BOOLEAN
    /\ slides \in Seq(Langs \cup {NoLang}) /\ Len(slides) <= MaxStories
    /\ active \in 0 .. Len(slides) /\ (active = 0 => Len(slides) = 0)
    /\ shown \in [lang : Langs \cup {NoLang}, request : Requests]
    /\ since \in Nat /\ timers \in Seq(Int) /\ Len(timers) = 1
    /\ calls \in Seq(Call) /\ fetches \subseteq Fetch
    /\ cookie \in Langs \cup {NoLang}
    /\ requested \in Requests /\ choices \in 0 .. MaxChoices
    /\ chosen \in Langs \cup {NoLang} /\ crossed \in BOOLEAN
    /\ outcome \in {"done", "unset", "unanswered"}
    /\ late \subseteq 1 .. MaxStories

Init ==
    /\ lang_ = English /\ title = English /\ rtl = FALSE /\ open = FALSE
    /\ slides = <<>> /\ active = 0 /\ shown = [lang |-> NoLang, request |-> 0]
    /\ since = 0 /\ timers = <<SlideInterval>>
    /\ calls = <<[kind |-> "getlang", lang |-> English]>>
    /\ fetches = {} /\ cookie \in SavedCookies
    /\ requested = 0 /\ choices = 0 /\ chosen = NoLang /\ crossed = FALSE
    /\ outcome = "done" /\ late = {}

-----------------------------------------------------------------------------
(* The slider.                                                             *)

\* Time passes; a timer that is due waits at most MaxLateness ticks.
Tick ==
    /\ \A i \in DOMAIN timers : timers[i] > -MaxLateness
    /\ since' = since + 1
    /\ timers' = [i \in DOMAIN timers |-> timers[i] - 1]
    /\ UNCHANGED <<langVars, slideVars, webVars, pastVars>>

\* Mutant: after the last slide the last is shown again.
NextSlide_NoWrap == IF active < Len(slides) THEN active + 1 ELSE active

\* The slide after the active one, the first after the last.
NextSlide == IF active = 0 THEN 0 ELSE (active % Len(slides)) + 1

\* The rest of on_image_slider: the time is noted even when there is no slide.
ShowNextSlide ==
    /\ since' = 0
    /\ active' = NextSlide
    /\ UNCHANGED <<slides, shown, late, langVars, webVars, pastVars>>

\* Mutant: the whole interval and the time that has passed.
RetryDelay_Longer == SlideInterval + since

\* How long the timer waits when a click came in between: the time that has passed, not the
\* time that is left.  A setTimeout of 0 waits for the next tick.
RetryDelay == IF since = 0 THEN 1 ELSE since

\* Mutant: too early, the chain of timers ends.
on_image_slider_early_NoTimer ==
    /\ timers # <<>> /\ Head(timers) <= 0
    /\ since < SlideInterval
    /\ timers' = Tail(timers)
    /\ UNCHANGED <<since, langVars, slideVars, webVars, pastVars>>

\* on_image_slider(true): too early, it sets another timer and leaves the slide alone.
on_image_slider_early ==
    /\ timers # <<>> /\ Head(timers) <= 0
    /\ since < SlideInterval
    /\ timers' = Append(Tail(timers), RetryDelay)
    /\ UNCHANGED <<since, langVars, slideVars, webVars, pastVars>>

\* on_image_slider(true): it sets the next timer and moves on.
on_image_slider_due ==
    /\ timers # <<>> /\ Head(timers) <= 0
    /\ since >= SlideInterval
    /\ timers' = Append(Tail(timers), SlideInterval)
    /\ ShowNextSlide

\* on_image_slider(event): the user clicks a slide.
on_image_slider_click ==
    /\ active # 0
    /\ timers' = timers
    /\ ShowNextSlide

-----------------------------------------------------------------------------
(* Language.                                                               *)

RequestNews(lang) ==
    /\ requested' = requested + 1
    /\ fetches' = fetches \cup {NewsFetch(lang, requested + 1)}

\* The language filter_lang and on_get_lang_cookies_list make of the cookie.
CookieLang == IF cookie = NoLang THEN English ELSE cookie

\* Mutant: the news are asked for in the language of the cookie, which the page does not take over.
LangAfterGetLang_Kept == lang_

\* The language of the page after the cookie list has arrived.
LangAfterGetLang == CookieLang

\* The cookie list arrives and the page takes the language over, whatever was chosen since.
on_get_lang ==
    /\ calls # <<>> /\ Head(calls).kind = "getlang"
    /\ calls' = Tail(calls) /\ outcome' = "done"
    /\ lang_' = LangAfterGetLang
    /\ RequestNews(CookieLang)
    /\ crossed' = (crossed \/ chosen # NoLang)
    /\ UNCHANGED <<title, rtl, open, slideVars, sliderVars, cookie, choices, chosen>>

\* Mutant: only Arabic turns the text round, nothing turns it back.
Direction_Stays == rtl \/ lang_ \in RtlLangs

\* The class rtl follows the language of the page.
Direction == lang_ \in RtlLangs

\* The cookie is set, or it is not, which on_set_lang_cookie does not look at; the page asks
\* for news and turns the text round.
on_change_lang ==
    /\ calls # <<>> /\ Head(calls).kind = "setlang"
    /\ calls' = Tail(calls)
    /\ \/ cookie' = Head(calls).lang /\ outcome' = "done"
       \/ UNCHANGED cookie /\ outcome' = "unset"
    /\ RequestNews(lang_)
    /\ rtl' = Direction
    /\ UNCHANGED <<lang_, title, open, slideVars, sliderVars, choices, chosen, crossed>>

\* There is no cookie manager, or no cookie can be made: the page is not told, and asks for
\* no news.
NoAnswer ==
    /\ calls # <<>>
    /\ calls' = Tail(calls)
    /\ outcome' = "unanswered"
    /\ UNCHANGED <<langVars, slideVars, sliderVars, fetches, cookie, requested, choices, chosen, crossed>>

\* Mutant: the page takes the language over when the cookie is set, not at once, and sends
\* what it has.
LangToSet_Old(lang) == lang_

\* The language sent to be set.
LangToSet(lang) == lang

\* The user picks a language in the open menu, which closes.
change_lang(lang) ==
    /\ open
    /\ choices < MaxChoices
    /\ choices' = choices + 1
    /\ lang_' = lang /\ title' = lang /\ open' = FALSE /\ chosen' = lang
    /\ calls' = Append(calls, [kind |-> "setlang", lang |-> LangToSet(lang)])
    /\ UNCHANGED <<rtl, slideVars, sliderVars, fetches, cookie, requested, crossed, outcome>>

\* A click on the button turns the menu, a click elsewhere closes it.
show_lang_menu(onButton) ==
    /\ open' = (onButton /\ ~open)
    /\ UNCHANGED <<lang_, title, rtl, slideVars, sliderVars, webVars, pastVars>>

\* A message from the page around closes the menu.
on_message ==
    /\ open' = FALSE
    /\ UNCHANGED <<lang_, title, rtl, slideVars, sliderVars, webVars, pastVars>>

-----------------------------------------------------------------------------
(* News and images.                                                        *)

\* Mutant: the old slides are not removed first.
EmptySlides_Kept(count) ==
    [i \in 1 .. count |-> IF i \in DOMAIN slides THEN slides[i] ELSE NoLang]

\* New slides, without images.
EmptySlides(count) == [i \in 1 .. count |-> NoLang]

\* Mutant: no slide is made active.
FirstActive_None(count) == 0

\* The first slide, when there is one.
FirstActive(count) == IF count > 0 THEN 1 ELSE 0

\* News arrive: the slides are built anew, the first is active, each asks for its image,
\* and the interval starts again.
on_get_news(fetch, count) ==
    /\ fetch \in fetches /\ fetch.kind = "news"
    /\ slides' = EmptySlides(count)
    /\ active' = FirstActive(count)
    /\ shown' = [lang |-> fetch.lang, request |-> fetch.request]
    /\ late' = {}
    /\ fetches' = (fetches \ {fetch})
                    \cup {ImageFetch(fetch.lang, fetch.request, i) : i \in 1 .. count}
    /\ since' = 0
    /\ UNCHANGED <<timers, langVars, calls, cookie, requested, pastVars>>

\* An image arrives: it goes to the slide with its number, if there is one.
on_get_image(fetch) ==
    /\ fetch \in fetches /\ fetch.kind = "image"
    /\ fetches' = fetches \ {fetch}
    /\ IF fetch.slot \in DOMAIN slides
       THEN /\ slides' = [slides EXCEPT ![fetch.slot] = fetch.lang]
            /\ late' = IF fetch.request = shown.request THEN late \ {fetch.slot}
                                                        ELSE late \cup {fetch.slot}
       ELSE UNCHANGED <<slides, late>>
    /\ UNCHANGED <<active, shown, sliderVars, langVars, calls, cookie, requested, pastVars>>

\* A load fails, or the answer is not what it should be: both handlers return at once.
LoadFails(fetch) ==
    /\ fetch \in fetches
    /\ fetches' = fetches \ {fetch}
    /\ UNCHANGED <<slideVars, sliderVars, langVars, calls, cookie, requested, pastVars>>

-----------------------------------------------------------------------------

on_image_slider == on_image_slider_early \/ on_image_slider_due

\* What the cookie manager and the loaders answer.
Answer ==
    \/ on_get_lang
    \/ on_change_lang
    \/ NoAnswer
    \/ \E fetch \in fetches, count \in 0 .. MaxStories : on_get_news(fetch, count)
    \/ \E fetch \in fetches : on_get_image(fetch)
    \/ \E fetch \in fetches : LoadFails(fetch)

Next ==
    \/ Tick
    \/ on_image_slider
    \/ on_image_slider_click
    \/ Answer
    \/ \E lang \in Langs : change_lang(lang)
    \/ \E onButton \in BOOLEAN : show_lang_menu(onButton)
    \/ on_message

Spec == Init /\ [][Next]_vars

\* Time passes and timers run; the cookie manager and the loaders answer.  The user owes nothing.
Fairness ==
    /\ WF_vars(Tick) /\ WF_vars(on_image_slider) /\ WF_vars(Answer)

FairSpec == Spec /\ Fairness

-----------------------------------------------------------------------------
(* Properties.                                                             *)

\* The cookie manager and the loaders have nothing left to answer.
Quiet == calls = <<>> /\ fetches = {}

\* A slide is not shown for two intervals (and the lateness of a timer): the delay of a retry,
\* the time since the click and not the time left (on_image_slider), stays short enough.
SlideIsNotLate == since <= 2 * (SlideInterval - 1) + MaxLateness

\* The news shown are not those of the last request: its answer failed, or an older one came
\* after it and was taken for the newest (on_get_news compares nothing).  Then the stories may
\* stay in a language the page has left, for good.
Overtaken == shown.request # requested

\* When nothing is on its way, the stories are in the language of the page, however choices and
\* answers of the cookie manager crossed, unless they were overtaken or the last call has got no
\* answer, and so no news either.
LatestNewsAreInLang ==
    Quiet /\ ~Overtaken /\ outcome # "unanswered" => shown.lang = lang_

\* After a choice and its answers the button names the choice, the cookie does unless it could
\* not be set, and the page asks in it unless the answer to getlang came after a choice and was
\* taken over it.
ChoiceIsKept ==
    Quiet /\ chosen # NoLang => /\ title = chosen
                                /\ cookie = chosen \/ outcome # "done"
                                /\ lang_ = chosen \/ crossed

\* After a choice and its answers, the direction of the text is that of the language of the
\* page, unless the last choice has got no answer.  (Before a choice it is left to right, even
\* when the cookie names "ar".)
DirectionFollowsLang ==
    Quiet /\ chosen # NoLang /\ outcome # "unanswered" => (rtl <=> lang_ \in RtlLangs)

\* No slide keeps an image of the news before, except one that arrived after the new news:
\* the number of a slide is all that an image is asked by (on_get_image).
ImagesAreOfTheNews ==
    \A i \in DOMAIN slides : slides[i] \in {NoLang, shown.lang} \/ i \in late

\* What the page shows belongs together once all answers are in: stories, images, button, cookie and
\* direction are those of the last choice, but for five named cases.  The stories are not when they
\* were overtaken (on_get_news); an image not when it came after newer news (on_get_image); the
\* language asked in not when the answer to getlang crossed a choice (on_get_lang); the cookie not
\* when it could not be set; and cookie, stories and direction not after a call without an answer.
LanguageIsSound ==
    LatestNewsAreInLang /\ ChoiceIsKept /\ DirectionFollowsLang /\ ImagesAreOfTheNews

\* Of several stories none is shown forever, whatever clicks and news come in between.
SliderMovesOn ==
    \A i \in 1 .. MaxStories : (active = i /\ Len(slides) > 1) ~> (active # i \/ Len(slides) = 1)

=============================================================================
