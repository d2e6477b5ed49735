----------------------------- MODULE TabsProofs -----------------------------
(***************************************************************************)
(* Proofs about the news page and the debug page.                            *)
(*                                                                         *)
(* News, for any languages, interval, lateness, number of stories and of      *)
(* choices.  SlideInv: the time since the last slide and the time left to the  *)
(* timer are together less than two intervals, which no click, retry or tick   *)
(* changes.  CallInv: what is on its way to the cookie manager and the       *)
(* requests for news are together no more than the choices and the first      *)
(* question, and the last call on its way carries the last choice.  NewsInv:  *)
(* a request number means one language, and the last number means the         *)
(* language of the page once nothing is on its way to the cookie manager and  *)
(* the last call was answered.                                              *)
(*                                                                         *)
(* DebugPage, for any numbers of iterations, faults and disturbances.         *)
(* ChainInv: the chain of calls is in exactly one place, or in none once the   *)
(* end is told or the page threw; and wherever it is past a restart, the      *)
(* wallet is loaded or another tab interfered.                               *)
(***************************************************************************)
EXTENDS MC_Tabs, SequenceTheorems, FiniteSetTheorems, TLAPS

\* The timer and the time since the last slide.
SlideInv ==
    /\ timers[1] >= -MaxLateness
    /\ since + timers[1] <= 2 * (SlideInterval - 1)

\* What is on its way to the cookie manager, and what has come of it.
CallInv ==
    /\ Len(calls) + requested <= choices + 1
    /\ chosen # NoLang =>
          /\ title = chosen /\ (lang_ = chosen \/ crossed)
          /\ calls # <<>> => /\ calls[Len(calls)].kind = "setlang"
                             /\ calls[Len(calls)].lang = chosen
          /\ calls = <<>> => /\ cookie = chosen \/ outcome # "done"
                             /\ outcome # "unanswered" => (rtl <=> lang_ \in RtlLangs)

\* The languages of what was requested.
NewsInv ==
    /\ shown.request <= requested
    /\ \A f \in fetches : f.request \in 1 .. requested
    /\ \A f \in fetches : f.request = shown.request => f.lang = shown.lang
    /\ \A f, g \in fetches : f.request = g.request => f.lang = g.lang
    /\ calls = <<>> /\ outcome # "unanswered" =>
          /\ shown.request = requested => shown.lang = lang_
          /\ \A f \in fetches : f.request = requested => f.lang = lang_

Inv == TypeOK /\ SlideInv /\ CallInv /\ NewsInv /\ ImagesAreOfTheNews

-----------------------------------------------------------------------------
(* Sequences.                                                              *)

\* A sequence of one element, and what takes its place.
LEMMA OneElement ==
    ASSUME NEW s \in Seq(Int), Len(s) = 1, NEW x \in Int
    PROVE  /\ s[1] \in Int /\ DOMAIN s = 1 .. 1 /\ s # <<>> /\ Head(s) = s[1]
           /\ Append(Tail(s), x) = <<x>>
<1>1. s # <<>> /\ s[1] \in Int /\ Head(s) = s[1]
  BY EmptySeq, HeadTailProperties, ElementOfSeq
<1>2. Tail(s) \in Seq(Int) /\ Len(Tail(s)) = 0
  BY <1>1, HeadTailProperties
<1>3. Tail(s) = <<>>
  BY <1>2, EmptySeq
<1>4. DOMAIN s = 1 .. 1
  BY LenProperties
<1>5. Append(<<>>, x) = <<x>>
  OBVIOUS
<1> QED
  BY <1>1, <1>3, <1>4, <1>5

\* The rest of a queue, and its end.
LEMMA Rest ==
    ASSUME NEW S, NEW s \in Seq(S), s # <<>>
    PROVE  /\ Head(s) \in S /\ Tail(s) \in Seq(S) /\ Len(s) > 0 /\ Len(Tail(s)) = Len(s) - 1
           /\ Tail(s) = <<>> => Len(s) = 1 /\ Head(s) = s[Len(s)]
           /\ Tail(s) # <<>> => Tail(s)[Len(Tail(s))] = s[Len(s)]
<1>1. /\ Head(s) \in S /\ Head(s) = s[1] /\ Tail(s) \in Seq(S) /\ Len(Tail(s)) = Len(s) - 1
      /\ \A i \in 1 .. Len(s) - 1 : Tail(s)[i] = s[i + 1]
  BY HeadTailProperties
<1>2. Len(s) \in Nat /\ Len(s) # 0
  BY EmptySeq, LenProperties
<1>3. Tail(s) = <<>> => Len(s) = 1
  <2>1. Len(<<>>) = 0
    BY EmptySeq
  <2> QED
    BY <1>1, <1>2, <2>1
<1> QED
  BY <1>1, <1>2, <1>3

\* A queue with one more at its end.
LEMMA OneMore ==
    ASSUME NEW S, NEW s \in Seq(S), NEW e \in S
    PROVE  /\ Append(s, e) \in Seq(S) /\ Append(s, e) # <<>>
           /\ Len(Append(s, e)) = Len(s) + 1 /\ Append(s, e)[Len(Append(s, e))] = e
BY AppendProperties

-----------------------------------------------------------------------------

LEMMA InitInv == Init => Inv
<1> USE ConstantsAssumption
<1> SUFFICES ASSUME Init PROVE Inv
  OBVIOUS
<1>1. [kind |-> "getlang", lang |-> English] \in Call
  BY DEF Call
<1>2. calls \in Seq(Call) /\ Len(calls) = 1 /\ calls # <<>>
  BY <1>1 DEF Init
<1>3. timers \in Seq(Int) /\ Len(timers) = 1 /\ timers[1] = SlideInterval /\ since = 0
  BY DEF Init
<1>4. /\ slides \in Seq(Langs \cup {NoLang}) /\ Len(slides) = 0 /\ DOMAIN slides = {}
  BY EmptySeq DEF Init
<1>5. TypeOK
  <2>1. requested \in Requests /\ choices \in 0 .. MaxChoices /\ active \in 0 .. Len(slides)
        /\ Len(slides) <= MaxStories
    BY <1>4 DEF Init, Requests
  <2>2. shown \in [lang : Langs \cup {NoLang}, request : Requests]
    BY DEF Init, Requests
  <2>3. since \in Nat /\ fetches \subseteq Fetch /\ late \subseteq 1 .. MaxStories
    BY DEF Init
  <2>4. lang_ \in Langs /\ title \in Langs /\ cookie \in Langs \cup {NoLang}
        /\ chosen \in Langs \cup {NoLang}
    BY DEF Init
  <2>5. rtl \in BOOLEAN /\ open \in BOOLEAN /\ crossed \in BOOLEAN
    BY Zenon DEF Init
  <2>6. outcome \in {"done", "unset", "unanswered"}
    BY DEF Init
  <2> QED
    BY <1>2, <1>3, <1>4, <2>1, <2>2, <2>3, <2>4, <2>5, <2>6 DEF TypeOK
<1>6. SlideInv
  BY <1>3 DEF SlideInv
<1>7. CallInv
  BY <1>2 DEF Init, CallInv
<1>8. NewsInv
  BY <1>2 DEF Init, NewsInv
<1>9. ImagesAreOfTheNews
  BY <1>4 DEF ImagesAreOfTheNews
<1> QED
  BY <1>5, <1>6, <1>7, <1>8, <1>9 DEF Inv

\* The types, and the count of calls and requests that bounds the number of requests.
LEMMA TypeStep ==
    ASSUME TypeOK, CallInv, [Next]_vars PROVE TypeOK'
<1>1. CASE UNCHANGED vars
  BY <1>1 DEF TypeOK, vars, langVars, slideVars, sliderVars, webVars, pastVars
<1>2. CASE Tick
  <2>1. timers' \in Seq(Int) /\ Len(timers') = 1 /\ since' \in Nat
    <3>1. timers \in Seq(Int) /\ Len(timers) = 1 /\ since \in Nat
      BY DEF TypeOK
    <3>2. timers' = [i \in 1 .. 1 |-> timers[i] - 1] /\ timers[1] \in Int
      BY <1>2, <3>1, OneElement DEF Tick
    <3> QED
      BY <1>2, <3>1, <3>2, IsASeq, LenProperties DEF Tick
  <2> QED
    BY <1>2, <2>1 DEF Tick, TypeOK, langVars, slideVars, webVars, pastVars
<1>3. ASSUME on_image_slider_early PROVE TypeOK'
  <2>1. RetryDelay \in Nat
    BY DEF RetryDelay, TypeOK
  <2>2. timers' = <<RetryDelay>>
    BY <1>3, <2>1, OneElement DEF on_image_slider_early, TypeOK
  <2> QED
    BY <1>3, <2>1, <2>2 DEF on_image_slider_early, TypeOK, langVars, slideVars, webVars, pastVars
<1>4. NextSlide \in 0 .. Len(slides) /\ (NextSlide = 0 => Len(slides) = 0)
  BY DEF NextSlide, TypeOK
<1>5. CASE on_image_slider_due
  <2>1. timers' = <<SlideInterval>>
    BY <1>5, OneElement, ConstantsAssumption DEF on_image_slider_due, TypeOK
  <2> QED
    BY <1>4, <1>5, <2>1, ConstantsAssumption
       DEF on_image_slider_due, ShowNextSlide, TypeOK, langVars, webVars, pastVars
<1>6. CASE on_image_slider_click
  BY <1>4, <1>6 DEF on_image_slider_click, ShowNextSlide, TypeOK, langVars, webVars, pastVars
<1>7. CookieLang \in Langs
  BY ConstantsAssumption DEF CookieLang, TypeOK
<1>8. ASSUME calls # <<>> PROVE /\ requested + 1 \in Requests /\ Len(Tail(calls)) = Len(calls) - 1
                                /\ Tail(calls) \in Seq(Call) /\ Head(calls) \in Call
  BY <1>8, ConstantsAssumption DEF TypeOK, CallInv, Requests
<1>9. ASSUME NEW lang \in Langs, requested + 1 \in Requests
      PROVE  fetches \cup {NewsFetch(lang, requested + 1)} \subseteq Fetch
  BY <1>9, ConstantsAssumption DEF NewsFetch, Fetch, TypeOK
<1>10. CASE on_get_lang
  BY <1>7, <1>8, <1>9, <1>10
     DEF on_get_lang, LangAfterGetLang, RequestNews, TypeOK, slideVars, sliderVars
<1>11. CASE on_change_lang
  <2>1. lang_ \in Langs /\ Head(calls).lang \in Langs
    BY <1>8, <1>11 DEF TypeOK, on_change_lang, Call
  <2> QED
    BY <1>8, <1>9, <1>11, <2>1
       DEF on_change_lang, RequestNews, Direction, TypeOK, slideVars, sliderVars
<1>18. CASE NoAnswer
  BY <1>8, <1>18 DEF NoAnswer, TypeOK, langVars, slideVars, sliderVars
<1>12. ASSUME NEW lang \in Langs, change_lang(lang) PROVE TypeOK'
  <2>1. [kind |-> "setlang", lang |-> LangToSet(lang)] \in Call
    BY DEF LangToSet, Call
  <2>2. calls' \in Seq(Call)
    BY <1>12, <2>1, OneMore DEF change_lang, TypeOK
  <2>3. choices' \in 0 .. MaxChoices
    BY <1>12, ConstantsAssumption DEF change_lang, TypeOK
  <2> QED
    BY <1>12, <2>2, <2>3 DEF change_lang, TypeOK, slideVars, sliderVars
<1>13. ASSUME NEW onButton \in BOOLEAN, show_lang_menu(onButton) PROVE TypeOK'
  BY <1>13 DEF show_lang_menu, TypeOK, slideVars, sliderVars, webVars, pastVars
<1>14. CASE on_message
  BY <1>14 DEF on_message, TypeOK, slideVars, sliderVars, webVars, pastVars
<1>15. ASSUME NEW fetch \in fetches, NEW count \in 0 .. MaxStories, on_get_news(fetch, count)
       PROVE  TypeOK'
  <2>1. fetch.lang \in Langs /\ fetch.request \in Requests
    BY DEF TypeOK, Fetch
  <2>2. \A i \in 1 .. count : ImageFetch(fetch.lang, fetch.request, i) \in Fetch
    BY <2>1, ConstantsAssumption DEF ImageFetch, Fetch
  <2>3. fetches' \subseteq Fetch
    BY <1>15, <2>2 DEF on_get_news, TypeOK
  <2>4. slides' \in Seq(Langs \cup {NoLang}) /\ Len(slides') = count
    BY <1>15, ConstantsAssumption DEF on_get_news, EmptySlides
  <2> QED
    BY <1>15, <2>1, <2>3, <2>4, ConstantsAssumption
       DEF on_get_news, FirstActive, TypeOK, langVars, pastVars
<1>16. ASSUME NEW fetch \in fetches, on_get_image(fetch) PROVE TypeOK'
  <2>1. fetch.lang \in Langs
    BY DEF TypeOK, Fetch
  <2>2. slides \in Seq(Langs \cup {NoLang}) /\ late \subseteq 1 .. MaxStories
        /\ Len(slides) \in 0 .. MaxStories /\ DOMAIN slides = 1 .. Len(slides)
    BY LenProperties, ConstantsAssumption DEF TypeOK
  <2>3. CASE fetch.slot \in DOMAIN slides
    <3>1. slides' = [slides EXCEPT ![fetch.slot] = fetch.lang]
          /\ late' \subseteq late \cup {fetch.slot}
      BY <1>16, <2>3 DEF on_get_image
    <3>2. slides' \in Seq(Langs \cup {NoLang}) /\ Len(slides') = Len(slides)
      BY <2>1, <2>2, <2>3, <3>1, ExceptSeq
    <3>3. late' \subseteq 1 .. MaxStories
      BY <2>2, <2>3, <3>1, ConstantsAssumption
    <3> QED
      BY <1>16, <3>2, <3>3 DEF on_get_image, TypeOK, sliderVars, langVars, pastVars
  <2>4. CASE UNCHANGED <<slides, late>>
    BY <1>16, <2>4 DEF on_get_image, TypeOK, sliderVars, langVars, pastVars
  <2> QED
    BY <1>16, <2>3, <2>4 DEF on_get_image
<1>17. ASSUME NEW fetch \in fetches, LoadFails(fetch) PROVE TypeOK'
  BY <1>17 DEF LoadFails, TypeOK, slideVars, sliderVars, langVars, pastVars
<1> QED
  BY <1>1, <1>2, <1>3, <1>5, <1>6, <1>10, <1>11, <1>12, <1>13, <1>14, <1>15, <1>16, <1>17, <1>18
     DEF Next, Answer, on_image_slider

\* Every step keeps the two times together below two intervals.
LEMMA SlideStep ==
    ASSUME TypeOK, SlideInv, [Next]_vars PROVE SlideInv'
<1> USE ConstantsAssumption
<1>0. /\ timers \in Seq(Int) /\ Len(timers) = 1 /\ since \in Nat
      /\ timers[1] \in Int /\ DOMAIN timers = 1 .. 1 /\ Head(timers) = timers[1]
  BY OneElement DEF TypeOK
<1>1. CASE UNCHANGED <<since, timers>>
  BY <1>1 DEF SlideInv
<1>2. CASE Tick
  BY <1>0, <1>2 DEF Tick, SlideInv
<1>3. CASE on_image_slider_early
  <2>1. timers' = <<RetryDelay>> /\ since' = since /\ since < SlideInterval
    BY <1>0, <1>3, OneElement DEF on_image_slider_early, RetryDelay
  <2>2. timers'[1] = RetryDelay
    BY <2>1
  <2> QED
    BY <1>0, <2>1, <2>2 DEF RetryDelay, SlideInv
<1>4. CASE on_image_slider_due
  <2>1. timers' = <<SlideInterval>> /\ since' = 0
    BY <1>0, <1>4, OneElement DEF on_image_slider_due, ShowNextSlide
  <2> QED
    BY <2>1 DEF SlideInv
<1>5. CASE since' = 0 /\ timers' = timers
  BY <1>0, <1>5 DEF SlideInv
<1> QED
  BY <1>1, <1>2, <1>3, <1>4, <1>5
     DEF Next, Answer, on_image_slider, on_image_slider_click, ShowNextSlide, on_get_lang,
         on_change_lang, NoAnswer, change_lang, show_lang_menu, on_message, on_get_news, on_get_image,
         LoadFails, sliderVars, vars

-----------------------------------------------------------------------------

\* Calls are answered in order, so the last of them is the last choice.
LEMMA CallStep ==
    ASSUME TypeOK, CallInv, [Next]_vars PROVE CallInv'
<1> USE ConstantsAssumption
<1>0. calls \in Seq(Call) /\ requested \in Nat /\ choices \in Nat
  BY DEF TypeOK, Requests
<1>1. CASE UNCHANGED <<calls, requested, choices, chosen, title, lang_, crossed, cookie, rtl, outcome>>
  BY <1>1 DEF CallInv
<1>2. ASSUME calls # <<>> PROVE /\ Len(Tail(calls)) = Len(calls) - 1 /\ Len(calls) \in Nat
                                /\ Tail(calls) = <<>> => Head(calls) = calls[Len(calls)]
                                /\ Tail(calls) # <<>> =>
                                      Tail(calls)[Len(Tail(calls))] = calls[Len(calls)]
  BY <1>0, <1>2, Rest, LenProperties
<1>3. CASE on_get_lang
  <2>1. /\ calls # <<>> /\ Head(calls).kind = "getlang" /\ calls' = Tail(calls)
        /\ requested' = requested + 1 /\ crossed' = (crossed \/ chosen # NoLang)
        /\ UNCHANGED <<title, choices, chosen>>
    BY <1>3 DEF on_get_lang, RequestNews
  <2>2. chosen # NoLang => Tail(calls) # <<>>
    BY <1>2, <2>1 DEF CallInv
  <2>3. Len(calls') + requested' <= choices' + 1
    BY <1>0, <1>2, <2>1 DEF CallInv
  <2> QED
    BY <1>2, <2>1, <2>2, <2>3, Zenon DEF CallInv
<1>4. CASE on_change_lang
  <2>1. /\ calls # <<>> /\ calls' = Tail(calls) /\ (cookie' = Head(calls).lang \/ outcome' = "unset")
        /\ requested' = requested + 1 /\ rtl' = (lang_ \in RtlLangs)
        /\ UNCHANGED <<title, lang_, choices, chosen, crossed>>
    BY <1>4 DEF on_change_lang, RequestNews, Direction
  <2>2. Len(calls') + requested' <= choices' + 1
    BY <1>0, <1>2, <2>1 DEF CallInv
  <2> QED
    BY <1>2, <2>1, <2>2, Zenon DEF CallInv
<1>5. ASSUME NEW lang \in Langs, change_lang(lang) PROVE CallInv'
  <2>1. /\ calls' = Append(calls, [kind |-> "setlang", lang |-> lang])
        /\ choices' = choices + 1 /\ requested' = requested
        /\ title' = lang /\ lang_' = lang /\ chosen' = lang
    BY <1>5 DEF change_lang, LangToSet
  <2>2. Len(calls') = Len(calls) + 1 /\ calls' # <<>>
        /\ calls'[Len(calls')] = [kind |-> "setlang", lang |-> lang]
    BY <1>0, <2>1
  <2> QED
    BY <1>0, <2>1, <2>2 DEF CallInv
<1>6. CASE NoAnswer
  <2>1. /\ calls # <<>> /\ calls' = Tail(calls) /\ outcome' = "unanswered"
        /\ UNCHANGED <<requested, choices, chosen, title, lang_, crossed>>
    BY <1>6 DEF NoAnswer, langVars
  <2>2. Len(calls') + requested' <= choices' + 1
    BY <1>0, <1>2, <2>1 DEF CallInv
  <2> QED
    BY <1>2, <2>1, <2>2, Zenon DEF CallInv
<1> QED
  BY <1>1, <1>3, <1>4, <1>5, <1>6
     DEF Next, Answer, Tick, on_image_slider, on_image_slider_early, on_image_slider_due,
         on_image_slider_click, ShowNextSlide, show_lang_menu, on_message, on_get_news,
         on_get_image, LoadFails, langVars, webVars, pastVars, vars

\* A new request has a number no other has, and the language of the page.
LEMMA RequestStep ==
    ASSUME TypeOK, NewsInv, NEW lang \in Langs, RequestNews(lang),
           lang_' = lang, shown' = shown
    PROVE  NewsInv'
<1>1. requested' = requested + 1 /\ fetches' = fetches \cup {NewsFetch(lang, requested + 1)}
  BY DEF RequestNews
<1>2. requested \in Nat /\ shown.request \in Nat /\ \A f \in fetches : f.request \in Nat
  BY ConstantsAssumption DEF TypeOK, Requests, Fetch
<1>3. NewsFetch(lang, requested + 1).request = requested + 1
      /\ NewsFetch(lang, requested + 1).lang = lang
  BY DEF NewsFetch
<1>4. /\ shown'.request <= requested'
      /\ shown'.request # requested'
      /\ \A f \in fetches' : f.request \in 1 .. requested'
  BY <1>1, <1>2, <1>3 DEF NewsInv
<1>5. /\ \A f \in fetches' : f.request = shown'.request => f.lang = shown'.lang
      /\ \A f, g \in fetches' : f.request = g.request => f.lang = g.lang
      /\ \A f \in fetches' : f.request = requested' => f.lang = lang_'
  BY <1>1, <1>2, <1>3, <1>4 DEF NewsInv
<1> QED
  BY <1>4, <1>5 DEF NewsInv

\* Every step keeps a number with its language.
LEMMA NewsStep ==
    ASSUME TypeOK, CallInv, NewsInv, [Next]_vars PROVE NewsInv'
<1>1. CASE UNCHANGED <<shown, fetches, requested, calls, lang_, outcome>>
  BY <1>1 DEF NewsInv
<1>2. CASE on_get_lang
  <2>1. CookieLang \in Langs
    BY ConstantsAssumption DEF CookieLang, TypeOK
  <2> QED
    BY <1>2, <2>1, RequestStep DEF on_get_lang, LangAfterGetLang, slideVars
<1>3. CASE on_change_lang
  BY <1>3, RequestStep DEF on_change_lang, slideVars, TypeOK
<1>4. ASSUME NEW lang \in Langs, change_lang(lang) PROVE NewsInv'
  <2>1. calls' # <<>>
    <3>1. [kind |-> "setlang", lang |-> LangToSet(lang)] \in Call
      BY DEF Call, LangToSet
    <3> QED
      BY <1>4, <3>1, OneMore DEF change_lang, TypeOK
  <2> QED
    BY <1>4, <2>1 DEF change_lang, slideVars, NewsInv
<1>5. ASSUME NEW fetch \in fetches, NEW count \in 0 .. MaxStories, on_get_news(fetch, count)
      PROVE  NewsInv'
  <2>1. shown' = [lang |-> fetch.lang, request |-> fetch.request]
        /\ UNCHANGED <<calls, requested, lang_, outcome>>
    BY <1>5 DEF on_get_news, langVars, pastVars
  <2>2. ASSUME NEW f \in fetches'
        PROVE  \/ f \in fetches
               \/ f.lang = fetch.lang /\ f.request = fetch.request
    BY <1>5, <2>2 DEF on_get_news, ImageFetch
  <2>3. fetch.request \in 1 .. requested /\ requested \in Nat
    BY DEF NewsInv, TypeOK, Requests
  <2> QED
    BY <2>1, <2>2, <2>3 DEF NewsInv
<1>6. CASE fetches' \subseteq fetches /\ UNCHANGED <<shown, requested, calls, lang_, outcome>>
  BY <1>6 DEF NewsInv
<1>7. ASSUME NEW fetch \in fetches, on_get_image(fetch) \/ LoadFails(fetch) PROVE NewsInv'
  BY <1>6, <1>7 DEF on_get_image, LoadFails, langVars, slideVars, pastVars
<1>8. CASE NoAnswer
  BY <1>8 DEF NoAnswer, NewsInv, langVars, slideVars
<1> QED
  BY <1>1, <1>2, <1>3, <1>4, <1>5, <1>7, <1>8
     DEF Next, Answer, Tick, on_image_slider, on_image_slider_early, on_image_slider_due,
         on_image_slider_click, ShowNextSlide, show_lang_menu, on_message,
         langVars, slideVars, webVars, pastVars, vars

\* An image of other news than those shown is marked late, any other has their language.
LEMMA ImagesStep ==
    ASSUME TypeOK, NewsInv, ImagesAreOfTheNews, [Next]_vars
    PROVE  ImagesAreOfTheNews'
<1>1. CASE UNCHANGED <<slides, shown, late>>
  BY <1>1 DEF ImagesAreOfTheNews
<1>2. ASSUME NEW fetch \in fetches, NEW count \in 0 .. MaxStories, on_get_news(fetch, count)
      PROVE  ImagesAreOfTheNews'
  BY <1>2 DEF on_get_news, EmptySlides, ImagesAreOfTheNews
<1>3. ASSUME NEW fetch \in fetches, on_get_image(fetch) PROVE ImagesAreOfTheNews'
  <2>1. CASE UNCHANGED <<slides, late>>
    BY <1>1, <1>3, <2>1 DEF on_get_image
  <2>2. CASE /\ slides' = [slides EXCEPT ![fetch.slot] = fetch.lang]
             /\ late' = IF fetch.request = shown.request THEN late \ {fetch.slot}
                                                         ELSE late \cup {fetch.slot}
    <3>1. shown' = shown /\ DOMAIN slides' = DOMAIN slides
      BY <1>3, <2>2 DEF on_get_image
    <3>2. fetch.request = shown.request => fetch.lang = shown.lang
      BY DEF NewsInv
    <3> QED
      BY <2>2, <3>1, <3>2 DEF ImagesAreOfTheNews
  <2> QED
    BY <1>3, <2>1, <2>2 DEF on_get_image
<1> QED
  BY <1>1, <1>2, <1>3
     DEF Next, Answer, Tick, on_image_slider, on_image_slider_early, on_image_slider_due,
         on_image_slider_click, ShowNextSlide, on_get_lang, on_change_lang, change_lang,
         NoAnswer, show_lang_menu, on_message, LoadFails, slideVars, vars

\* The whole invariant is inductive.
LEMMA Invariance == Spec => []Inv
<1>1. Init => Inv
  BY InitInv
<1>2. Inv /\ [Next]_vars => Inv'
  BY TypeStep, SlideStep, CallStep, NewsStep, ImagesStep DEF Inv
<1> QED
  BY <1>1, <1>2, PTL DEF Spec

-----------------------------------------------------------------------------
(* What follows for the page.                                              *)

\* Every variable of the page holds a value of its kind, there is one chain of timers, and a slide is
\* active whenever there are slides (on_image_slider, on_get_news).
THEOREM NewsTypeCorrect == Spec => []TypeOK
<1>1. Inv => TypeOK
  BY DEF Inv
<1> QED
  BY <1>1, Invariance, PTL

\* A slide stays for less than two intervals, however long the interval and however late timers are:
\* no click and no retry with the wrong delay (on_image_slider) holds it longer.
THEOREM SlideIsShownInTime == Spec => []SlideIsNotLate
<1>1. Inv => SlideIsNotLate
  <2> SUFFICES ASSUME Inv PROVE SlideIsNotLate
    OBVIOUS
  <2>1. since \in Nat /\ timers[1] \in Int
    BY OneElement DEF Inv, TypeOK
  <2> QED
    BY <2>1, ConstantsAssumption DEF Inv, SlideInv, SlideIsNotLate
<1> QED
  BY <1>1, Invariance, PTL

\* Once all answers are in, stories, images, button, cookie and direction are of one language, the last
\* one chosen, for any number of languages, choices and stories, but for what LanguageIsSound names:
\* stories that were overtaken, images that came late, a getlang answer that crossed a choice
\* (on_get_news, on_get_image, on_get_lang), a cookie that could not be set, a call without an answer.
THEOREM OneLanguage == Spec => []LanguageIsSound
<1>1. Inv => LanguageIsSound
  <2> SUFFICES ASSUME Inv PROVE LanguageIsSound
    OBVIOUS
  <2>1. LatestNewsAreInLang
    BY DEF Inv, NewsInv, Quiet, Overtaken, LatestNewsAreInLang
  <2>2. ChoiceIsKept /\ DirectionFollowsLang
    BY DEF Inv, CallInv, Quiet, ChoiceIsKept, DirectionFollowsLang
  <2> QED
    BY <2>1, <2>2 DEF Inv, LanguageIsSound
<1> QED
  BY <1>1, Invariance, PTL

-----------------------------------------------------------------------------
(* The debug page.                                                         *)

\* The chain is nowhere, or in one of four places.
Nowhere    == toBrowser = <<>>  /\ atWallet = {}  /\ delayed = {}  /\ ChainEvents = {}
Sent(m)    == toBrowser = <<m>> /\ atWallet = {}  /\ delayed = {}  /\ ChainEvents = {}
Working(c) == toBrowser = <<>>  /\ atWallet = {c} /\ delayed = {}  /\ ChainEvents = {}
Waiting(m) == toBrowser = <<>>  /\ atWallet = {}  /\ delayed = {m} /\ ChainEvents = {}
Told(e)    == toBrowser = <<>>  /\ atWallet = {}  /\ delayed = {}
                 /\ \E i \in DOMAIN toPage : ChainEvents = {i} /\ toPage[i] = e

\* The wallet is there to be called.
Fine == is_loaded \/ disturbances > 0

\* Where the chain may be: past a restart only when the wallet is loaded again.
Somewhere ==
    \/ \E m \in Calls \cup Queries : Sent(m)    /\ (m \in Calls => Fine)
    \/ \E c \in Calls              : Working(c) /\ Fine
    \/ \E m \in Calls \cup Queries : Waiting(m) /\ (m \in Calls => Fine)
    \/ \E e \in Event : /\ Told(e)
                        /\ e.name \in Calls \ Restarting \/ e.answer = "loaded" => Fine

ChainInv ==
    /\ DebugTypeOK
    /\ \/ /\ Nowhere
          /\ started  => status \in {"failed", "success"} \/ threw
          /\ ~started => iteration <= Iterations
       \/ Somewhere /\ started /\ iteration <= Iterations

LEMMA Events ==
    ASSUME NEW e \in Event
    PROVE  /\ e.name \in Calls \/ e.name \in Queries
           /\ e.answer \in {"unknown", "loaded", "loading"} => e.name \in Queries
           /\ e.answer \in {"ok", "bad"} => e.name \in Calls
           /\ e.answer \in {"ok", "bad", "error", "unknown", "loaded", "loading"}
BY DEF Event, Answers

\* Calls and questions are told apart.
LEMMA Names ==
    /\ Queries = {"environment", "sethdseed_environment", "encryptwallet_environment",
                  "stop_environment", "restartwallet_environment"}
    /\ Polls = Queries \ {"environment"}
    /\ Restarting = {"sethdseed", "encryptwallet", "stop", "restartwallet"}
    /\ Calls \cap Queries = {} /\ Restarting \subseteq Calls
    /\ \A name \in DOMAIN CallAfter : CallAfter[name] \in Calls
    /\ \A call \in Restarting : PollAfter[call] \in Polls
    /\ DOMAIN CallAfter \ Queries = {"mnsync", "getnewaddress", "getbalance", "getbalance2",
                                     "transactions", "wallet_images", "web_url"}
    /\ Queries \subseteq DOMAIN CallAfter
<1>1. Restarting = {"sethdseed", "encryptwallet", "stop", "restartwallet"}
  BY DEF Restarting, PollAfter
<1>2. /\ PollAfter["sethdseed"] = "sethdseed_environment"
      /\ PollAfter["encryptwallet"] = "encryptwallet_environment"
      /\ PollAfter["stop"] = "stop_environment"
      /\ PollAfter["restartwallet"] = "restartwallet_environment"
  BY DEF PollAfter
<1>3. Polls = {"sethdseed_environment", "encryptwallet_environment", "stop_environment",
               "restartwallet_environment"}
  BY <1>1, <1>2 DEF Polls
<1>4. Queries = {"environment", "sethdseed_environment", "encryptwallet_environment",
                 "stop_environment", "restartwallet_environment"}
  BY <1>3 DEF Queries
<1>5. DOMAIN CallAfter = Queries \cup {"mnsync", "getnewaddress", "getbalance", "getbalance2",
                                       "transactions", "wallet_images", "web_url"}
  BY <1>4 DEF CallAfter
<1>6. \A name \in DOMAIN CallAfter : CallAfter[name] \in Calls
  BY DEF CallAfter, Calls, RpcCalls, OtherCalls
<1>7. Calls \cap Queries = {} /\ Restarting \subseteq Calls
  BY <1>1, <1>4 DEF Calls, RpcCalls, OtherCalls
<1> QED
  BY <1>1, <1>2, <1>3, <1>4, <1>5, <1>6, <1>7

\* The first event, when it is one of the chain, is the chain's place.
LEMMA HeadTold ==
    ASSUME ChainInv, toPage # <<>>, Head(toPage).answer # "unknown", toPage' = Tail(toPage)
    PROVE  /\ toBrowser = <<>> /\ atWallet = {} /\ delayed = {} /\ started
           /\ iteration <= Iterations /\ Head(toPage) \in Event
           /\ Head(toPage).name \in Calls \ Restarting \/ Head(toPage).answer = "loaded" => Fine
           /\ ChainEvents' = {} /\ toPage' \in Seq(Event)
<1>1. toPage \in Seq(Event)
  BY DEF ChainInv, DebugTypeOK
<1>2. /\ Head(toPage) = toPage[1] /\ 1 \in DOMAIN toPage /\ Head(toPage) \in Event
      /\ toPage' \in Seq(Event) /\ Len(toPage) \in Nat
      /\ DOMAIN toPage = 1 .. Len(toPage) /\ DOMAIN toPage' = 1 .. Len(toPage) - 1
      /\ \A i \in 1 .. Len(toPage) - 1 : toPage'[i] = toPage[i + 1]
  BY <1>1, EmptySeq, LenProperties, HeadTailProperties
<1>3. 1 \in ChainEvents
  BY <1>2 DEF ChainEvents
<1>4. ~Nowhere /\ Somewhere /\ started /\ iteration <= Iterations
  BY <1>3 DEF Nowhere, ChainInv
<1>5. PICK e \in Event : /\ Told(e)
                         /\ e.name \in Calls \ Restarting \/ e.answer = "loaded" => Fine
  BY <1>3, <1>4 DEF Somewhere, Sent, Working, Waiting
<1>6. ChainEvents = {1} /\ e = Head(toPage)
  BY <1>2, <1>3, <1>5 DEF Told
<1>7. ChainEvents' = {}
  BY <1>2, <1>6 DEF ChainEvents
<1> QED
  BY <1>2, <1>4, <1>5, <1>6, <1>7 DEF Told

\* A broadcast at the head of the queue moves the others up.
LEMMA HeadUnknown ==
    ASSUME DebugTypeOK, toPage # <<>>, Head(toPage).answer = "unknown", toPage' = Tail(toPage)
    PROVE  /\ toPage' \in Seq(Event)
           /\ ChainEvents = {} => ChainEvents' = {}
           /\ \A e : (\E i \in DOMAIN toPage : ChainEvents = {i} /\ toPage[i] = e)
                 => \E i \in DOMAIN toPage' : ChainEvents' = {i} /\ toPage'[i] = e
<1>1. toPage \in Seq(Event)
  BY DEF DebugTypeOK
<1>2. /\ Head(toPage) = toPage[1] /\ 1 \in DOMAIN toPage
      /\ toPage' \in Seq(Event) /\ Len(toPage) \in Nat
      /\ DOMAIN toPage = 1 .. Len(toPage) /\ DOMAIN toPage' = 1 .. Len(toPage) - 1
      /\ \A i \in 1 .. Len(toPage) - 1 : toPage'[i] = toPage[i + 1]
  BY <1>1, EmptySeq, LenProperties, HeadTailProperties
<1>3. \A i \in DOMAIN toPage' : i \in ChainEvents' <=> i + 1 \in ChainEvents
  BY <1>2 DEF ChainEvents
<1>4. ASSUME NEW e, NEW i \in DOMAIN toPage, ChainEvents = {i}, toPage[i] = e
      PROVE  \E j \in DOMAIN toPage' : ChainEvents' = {j} /\ toPage'[j] = e
  <2>1. i # 1
    BY <1>2, <1>4 DEF ChainEvents
  <2>2. i - 1 \in DOMAIN toPage' /\ toPage'[i - 1] = e
    BY <1>2, <1>4, <2>1
  <2>3. ChainEvents' \subseteq DOMAIN toPage'
    BY DEF ChainEvents
  <2>4. \A j \in DOMAIN toPage' : j \in ChainEvents' <=> j = i - 1
    BY <1>2, <1>3, <1>4
  <2>5. ChainEvents' = {i - 1}
    BY <2>2, <2>3, <2>4
  <2> QED  BY <2>2, <2>5
<1>5. ChainEvents = {} => ChainEvents' = {}
  BY <1>3 DEF ChainEvents
<1> QED
  BY <1>2, <1>4, <1>5

\* An event of the chain, and a broadcast, at the end of the queue.
LEMMA Emitted ==
    ASSUME DebugTypeOK, NEW e \in Event, toPage' = Append(toPage, e)
    PROVE  /\ toPage' \in Seq(Event)
           /\ e.answer # "unknown" /\ ChainEvents = {} =>
                 \E i \in DOMAIN toPage' : ChainEvents' = {i} /\ toPage'[i] = e
           /\ e.answer = "unknown" =>
                 /\ ChainEvents' = ChainEvents
                 /\ \A i \in DOMAIN toPage : i \in DOMAIN toPage' /\ toPage'[i] = toPage[i]
<1>1. toPage \in Seq(Event)
  BY DEF DebugTypeOK
<1>2. /\ toPage' \in Seq(Event) /\ Len(toPage) \in Nat
      /\ DOMAIN toPage = 1 .. Len(toPage) /\ DOMAIN toPage' = 1 .. Len(toPage) + 1
      /\ \A i \in 1 .. Len(toPage) : toPage'[i] = toPage[i]
      /\ toPage'[Len(toPage) + 1] = e
  BY <1>1, AppendProperties, LenProperties
<1>3. ASSUME e.answer # "unknown", ChainEvents = {}
      PROVE  ChainEvents' = {Len(toPage) + 1}
  BY <1>2, <1>3 DEF ChainEvents
<1>4. ASSUME e.answer = "unknown"
      PROVE  ChainEvents' = ChainEvents
  BY <1>2, <1>4 DEF ChainEvents
<1> QED
  BY <1>2, <1>3, <1>4

\* What a listener leaves that took an event of the chain: a message, a timeout, or the end, said.
LEMMA Handled ==
    ASSUME ChainInv, toPage # <<>>, Head(toPage).answer # "unknown", toPage' = Tail(toPage),
           UNCHANGED <<started, browserVars, faults, disturbances>>,
           status' \in {"idle", "running", "failed", "success"}, threw' \in BOOLEAN,
           iteration' \in 0 .. (Iterations + 1),
           \/ /\ iteration' <= Iterations
              /\ \E m \in Calls \cup Queries :
                    /\ m \in Calls => Fine
                    /\ \/ Send(m) /\ delayed' = delayed
                       \/ delayed' = delayed \cup {m} /\ toBrowser' = toBrowser
           \/ /\ status' \in {"failed", "success"} \/ threw'
              /\ delayed' = delayed /\ toBrowser' = toBrowser
    PROVE  ChainInv'
<1>1. /\ toBrowser = <<>> /\ atWallet = {} /\ delayed = {} /\ started
      /\ iteration <= Iterations /\ ChainEvents' = {} /\ toPage' \in Seq(Event)
  BY HeadTold
<1>2. /\ atWallet' = {} /\ started' = started /\ is_loaded' = is_loaded
      /\ environment_error' = environment_error /\ launch' = launch
      /\ faults' = faults /\ disturbances' = disturbances
  BY <1>1 DEF browserVars, managerVars
<1>3. Fine => Fine'
  BY <1>2 DEF Fine
<1>4. CASE /\ iteration' <= Iterations
           /\ \E m \in Calls \cup Queries :
                /\ m \in Calls => Fine
                /\ \/ Send(m) /\ delayed' = delayed
                   \/ delayed' = delayed \cup {m} /\ toBrowser' = toBrowser
  <2>1. PICK m \in Calls \cup Queries :
            /\ m \in Calls => Fine
            /\ \/ Send(m) /\ delayed' = delayed
               \/ delayed' = delayed \cup {m} /\ toBrowser' = toBrowser
    BY <1>4
  <2>2. CASE Send(m) /\ delayed' = delayed
    <3>1. toBrowser' = <<m>>
      BY <1>1, <2>2 DEF Send
    <3>2. Sent(m)'
      BY <1>1, <1>2, <2>2, <3>1 DEF Sent
    <3>3. toBrowser' \in Seq(Calls \cup Queries)
      BY <3>1
    <3>4. DebugTypeOK'
      BY <1>1, <1>2, <2>2, <3>3 DEF ChainInv, DebugTypeOK
    <3>5. Somewhere'
      BY <1>3, <2>1, <3>2 DEF Somewhere
    <3> QED
      BY <1>1, <1>2, <1>4, <3>4, <3>5 DEF ChainInv
  <2>3. CASE delayed' = delayed \cup {m} /\ toBrowser' = toBrowser
    <3>1. delayed' = {m} /\ toBrowser' = <<>>
      BY <1>1, <2>3
    <3>2. Waiting(m)'
      BY <1>1, <1>2, <3>1 DEF Waiting
    <3>4. DebugTypeOK'
      BY <1>1, <1>2, <3>1 DEF ChainInv, DebugTypeOK
    <3>5. Somewhere'
      BY <1>3, <2>1, <3>2 DEF Somewhere
    <3> QED
      BY <1>1, <1>2, <1>4, <3>4, <3>5 DEF ChainInv
  <2> QED  BY <2>1, <2>2, <2>3
<1>5. CASE /\ status' \in {"failed", "success"} \/ threw'
           /\ delayed' = delayed /\ toBrowser' = toBrowser
  <2>1. Nowhere'
    BY <1>1, <1>2, <1>5 DEF Nowhere
  <2>2. DebugTypeOK'
    BY <1>1, <1>2, <1>5 DEF ChainInv, DebugTypeOK
  <2> QED
    BY <1>1, <1>2, <1>5, <2>1, <2>2 DEF ChainInv
<1> QED
  BY <1>4, <1>5

\* The chain stays where it is, and what is said of its end as well.
LEMMA Stays ==
    ASSUME ChainInv, DebugTypeOK', UNCHANGED <<started, iteration, toBrowser, atWallet, delayed>>,
           Fine => Fine', threw => threw',
           status' = status \/ status' \in {"failed", "success"},
           ChainEvents = {} => ChainEvents' = {},
           \A e : (\E i \in DOMAIN toPage : ChainEvents = {i} /\ toPage[i] = e)
                => \E i \in DOMAIN toPage' : ChainEvents' = {i} /\ toPage'[i] = e
    PROVE  ChainInv'
<1>1. CASE /\ Nowhere /\ (started => status \in {"failed", "success"} \/ threw)
           /\ ~started => iteration <= Iterations
  BY <1>1 DEF Nowhere, ChainInv
<1>2. CASE Somewhere /\ started /\ iteration <= Iterations
  <2>1. ASSUME NEW m \in Calls \cup Queries, Sent(m), m \in Calls => Fine PROVE Somewhere'
    BY <2>1 DEF Sent, Somewhere
  <2>2. ASSUME NEW c \in Calls, Working(c), Fine PROVE Somewhere'
    BY <2>2 DEF Working, Somewhere
  <2>3. ASSUME NEW m \in Calls \cup Queries, Waiting(m), m \in Calls => Fine PROVE Somewhere'
    BY <2>3 DEF Waiting, Somewhere
  <2>4. ASSUME NEW e \in Event, Told(e),
               e.name \in Calls \ Restarting \/ e.answer = "loaded" => Fine
        PROVE  Somewhere'
    <3>1. Told(e)'
      BY <2>4 DEF Told
    <3> QED
      BY <2>4, <3>1 DEF Somewhere
  <2>5. Somewhere'
    BY <1>2, <2>1, <2>2, <2>3, <2>4 DEF Somewhere
  <2> QED
    BY <1>2, <2>5 DEF ChainInv
<1> QED
  BY <1>1, <1>2 DEF ChainInv

\* The events a listener takes are all of the chain, but for the broadcast.
LEMMA Received ==
    ASSUME ChainInv, NEW name, NEW answers, Receive(name, answers)
    PROVE  /\ toPage # <<>> /\ toPage' = Tail(toPage)
           /\ UNCHANGED <<started, browserVars, faults, disturbances>>
           /\ Head(toPage).name = name /\ Head(toPage).answer \in answers
           /\ "unknown" \notin answers => Head(toPage).answer # "unknown"
           /\ status \in {"idle", "running", "failed", "success"} /\ threw \in BOOLEAN
           /\ iteration \in 0 .. (Iterations + 1)
BY DEF Receive, ChainInv, DebugTypeOK

\* The listeners.
LEMMA ListenersKeep ==
    ASSUME ChainInv,
           \/ environment_started
           \/ \E name \in Polls : environment(name)
           \/ \E call \in Restarting : on_restarting_call(call)
           \/ \E call \in Calls : on_call_failed(call)
           \/ \E call \in DOMAIN CallAfter \ Queries : on_call(call)
           \/ next
    PROVE  ChainInv'
<1>0. Iterations \in Nat
  BY DebugAssumption
<1>1. ASSUME NEW name \in Queries, Receive(name, {"loaded"}), status' = "running",
             Send(CallAfter[name]), UNCHANGED <<iteration, delayed, threw>>
      PROVE  ChainInv'
  <2>1. Head(toPage).answer = "loaded"
    BY <1>1 DEF Receive
  <2>2. Fine /\ iteration <= Iterations
    BY <1>1, <2>1, Received, HeadTold
  <2>3. CallAfter[name] \in Calls
    BY Names
  <2> QED
    BY <1>1, <2>1, <2>2, <2>3, Received, Handled
<1>2. CASE environment_started
  <2>1. CASE Receive("environment", {"loading", "error", "unknown"}) /\ show_error
    <3>1. CASE Head(toPage).answer = "unknown"
      <4>1. /\ toPage # <<>> /\ toPage' = Tail(toPage) /\ status' = "failed"
            /\ UNCHANGED <<started, iteration, delayed, toBrowser, atWallet, threw, is_loaded,
                           environment_error, launch, faults, disturbances>>
        BY <2>1 DEF Receive, show_error, browserVars, managerVars
      <4>2. DebugTypeOK
        BY DEF ChainInv
      <4>3. /\ toPage' \in Seq(Event)
            /\ ChainEvents = {} => ChainEvents' = {}
            /\ \A e : (\E i \in DOMAIN toPage : ChainEvents = {i} /\ toPage[i] = e)
                  => \E i \in DOMAIN toPage' : ChainEvents' = {i} /\ toPage'[i] = e
        BY <3>1, <4>1, <4>2, HeadUnknown
      <4>4. DebugTypeOK'
        BY <4>1, <4>2, <4>3 DEF DebugTypeOK
      <4>5. Fine => Fine'
        BY <4>1 DEF Fine
      <4> QED
        BY <4>1, <4>3, <4>4, <4>5, Stays
    <3>2. CASE Head(toPage).answer # "unknown"
      BY <2>1, <3>2, Received, Handled DEF show_error
    <3> QED  BY <3>1, <3>2
  <2>2. "environment" \in Queries
    BY Names
  <2> QED
    BY <1>1, <1>2, <2>1, <2>2 DEF environment_started
<1>3. ASSUME NEW name \in Polls, environment(name)
      PROVE  ChainInv'
  <2>0. name \in Queries /\ name \notin Calls
    BY Names
  <2>1. CASE Receive(name, {"error"}) /\ check_error
    BY <2>1, Received, Handled DEF check_error
  <2>2. CASE /\ Receive(name, {"loading"})
             /\ status' = "running" /\ delayed' = delayed \cup {name}
             /\ UNCHANGED <<iteration, toBrowser, threw>>
    <3>1. Head(toPage).answer # "unknown"
      BY <2>2 DEF Receive
    <3>2. iteration <= Iterations
      BY <2>2, <3>1, Received, HeadTold
    <3> QED
      BY <2>0, <2>2, <3>1, <3>2, Received, Handled
  <2> QED
    BY <1>1, <1>3, <2>0, <2>1, <2>2 DEF environment
<1>4. ASSUME NEW call \in Restarting, on_restarting_call(call)
      PROVE  ChainInv'
  <2>1. PollAfter[call] \in Queries /\ PollAfter[call] \notin Calls
    BY Names
  <2>2. Receive(call, Answers) /\ "unknown" \notin Answers
    BY <1>4 DEF on_restarting_call, Answers
  <2>3. iteration <= Iterations
    BY <2>2, Received, HeadTold
  <2>4. status' \in {"idle", "running", "failed", "success"}
    BY <1>4, <2>2, Received DEF on_restarting_call
  <2>5. /\ Send(PollAfter[call]) /\ UNCHANGED <<iteration, delayed, threw>>
    BY <1>4 DEF on_restarting_call
  <2> QED
    BY <2>1, <2>2, <2>3, <2>4, <2>5, Received, Handled
<1>5. ASSUME NEW call \in Calls, on_call_failed(call)
      PROVE  ChainInv'
  <2>1. CASE Receive(call, {"error"}) /\ check_error
    BY <2>1, Received, Handled DEF check_error
  <2>2. CASE /\ Receive(call, IF call \in CheckingErrors THEN {"bad"} ELSE {"bad", "error"})
             /\ show_error
    BY <2>2, Received, Handled DEF show_error
  <2> QED
    BY <1>5, <2>1, <2>2 DEF on_call_failed
<1>6. ASSUME NEW call \in DOMAIN CallAfter \ Queries, on_call(call)
      PROVE  ChainInv'
  <2>1. CallAfter[call] \in Calls
    BY Names
  <2>2. Receive(call, Accepted(call)) /\ "unknown" \notin Accepted(call)
    BY <1>6 DEF on_call, Accepted, Answers
  <2>3. call \in Calls \ Restarting
    BY Names DEF Calls, RpcCalls, OtherCalls
  <2>4. iteration <= Iterations /\ Fine
    BY <2>2, <2>3, Received, HeadTold
  <2>5. status' \in {"idle", "running", "failed", "success"}
    BY <1>6, <2>2, Received DEF on_call
  <2>6. /\ UNCHANGED <<iteration, threw>>
        /\ \/ Send(CallAfter[call]) /\ delayed' = delayed
           \/ delayed' = delayed \cup {CallAfter[call]} /\ toBrowser' = toBrowser
    BY <1>6 DEF on_call
  <2> QED
    BY <2>1, <2>2, <2>4, <2>5, <2>6, Received, Handled
<1>7. CASE next
  <2>1. /\ Receive("listdappsfirst", Accepted("listdappsfirst"))
        /\ "unknown" \notin Accepted("listdappsfirst")
        /\ iteration' = iteration + 1 /\ delayed' = delayed /\ threw' = threw
    BY <1>7 DEF next, Accepted, Answers
  <2>2. iteration <= Iterations /\ iteration \in Nat
    BY <2>1, Received, HeadTold
  <2>3. "environment" \in Queries /\ "environment" \notin Calls
    BY Names
  <2>4. CASE LastIteration
    <3>1. status' = "success" /\ toBrowser' = toBrowser
      BY <1>7, <2>4 DEF next
    <3>2. iteration' \in 0 .. (Iterations + 1)
      BY <1>0, <2>1, <2>2
    <3> QED
      BY <2>1, <3>1, <3>2, Received, Handled
  <2>5. CASE ~LastIteration
    <3>1. status' = "running" /\ Send("environment")
      BY <1>7, <2>5 DEF next
    <3>2. iteration' \in 0 .. (Iterations + 1) /\ iteration' <= Iterations
      BY <1>0, <2>1, <2>2, <2>5 DEF LastIteration
    <3> QED
      BY <2>1, <2>3, <3>1, <3>2, Received, Handled
  <2> QED  BY <2>4, <2>5
<1> QED
  BY <1>2, <1>3, <1>4, <1>5, <1>6, <1>7

\* A message at the head of the queue is the chain's place.
LEMMA HeadSent ==
    ASSUME ChainInv, NEW m, Take(m)
    PROVE  /\ toBrowser' = <<>> /\ atWallet = {} /\ delayed = {} /\ ChainEvents = {}
           /\ started /\ iteration <= Iterations /\ m \in Calls \cup Queries
           /\ m \in Calls => Fine
<1>1. toBrowser # <<>> /\ Head(toBrowser) = m /\ toBrowser' = Tail(toBrowser)
  BY DEF Take
<1>2. Somewhere /\ started /\ iteration <= Iterations
  BY <1>1 DEF ChainInv, Nowhere
<1>3. PICK n \in Calls \cup Queries : Sent(n) /\ (n \in Calls => Fine)
  BY <1>1, <1>2 DEF Somewhere, Working, Waiting, Told
<1>4. toBrowser = <<n>>
  BY <1>3 DEF Sent
<1>5. Head(toBrowser) = n /\ Tail(toBrowser) = <<>>
  BY <1>4
<1> QED
  BY <1>1, <1>2, <1>3, <1>5 DEF Sent

\* The chain is with the wallet.
LEMMA ToWallet ==
    ASSUME ChainInv, NEW c \in Calls, Take(c), atWallet' = atWallet \cup {c},
           UNCHANGED <<pageVars, managerVars, toPage, faults, disturbances>>
    PROVE  ChainInv'
<1>1. /\ toBrowser' = <<>> /\ atWallet' = {c} /\ delayed' = {} /\ ChainEvents' = {}
      /\ started' /\ iteration' <= Iterations /\ Fine'
  BY HeadSent DEF pageVars, managerVars, ChainEvents, Fine
<1>2. DebugTypeOK'
  BY <1>1 DEF ChainInv, DebugTypeOK, pageVars, managerVars
<1>3. Somewhere'
  BY <1>1 DEF Somewhere, Working
<1> QED
  BY <1>1, <1>2, <1>3 DEF ChainInv

\* The chain is answered.
LEMMA Answered ==
    ASSUME ChainInv, NEW name, NEW answer, Emit(name, answer),
           [name |-> name, answer |-> answer] \in Event, answer # "unknown",
           started, iteration <= Iterations, delayed = {}, ChainEvents = {},
           toBrowser' = <<>>, atWallet' = {}, UNCHANGED pageVars,
           is_loaded' \in BOOLEAN, environment_error' \in BOOLEAN,
           launch' \in {"none", "process", "address"},
           faults' = faults, disturbances' \in 0 .. MaxDisturbances,
           name \in Calls \ Restarting \/ answer = "loaded" => Fine'
    PROVE  ChainInv'
<1> DEFINE e == [name |-> name, answer |-> answer]
<1>1. e \in Event /\ e.name = name /\ e.answer = answer
  OBVIOUS
<1>2. toPage' = Append(toPage, e)
  BY DEF Emit
<1> HIDE DEF e
<1>3. DebugTypeOK
  BY DEF ChainInv
<1>4. /\ toPage' \in Seq(Event)
      /\ \E i \in DOMAIN toPage' : ChainEvents' = {i} /\ toPage'[i] = e
  BY <1>1, <1>2, <1>3, Emitted
<1>5. Told(e)'
  BY <1>4 DEF Told, pageVars
<1>6. DebugTypeOK'
  BY <1>3, <1>4 DEF DebugTypeOK, pageVars
<1>7. Somewhere'
  BY <1>1, <1>5 DEF Somewhere
<1> QED
  BY <1>6, <1>7 DEF ChainInv, pageVars

LEMMA BrowserKeeps ==
    ASSUME ChainInv, BrowserStep
    PROVE  ChainInv'
<1>0. /\ is_loaded \in BOOLEAN /\ environment_error \in BOOLEAN
      /\ launch \in {"none", "process", "address"}
      /\ disturbances \in 0 .. MaxDisturbances /\ MaxDisturbances \in Nat
  BY DebugAssumption DEF ChainInv, DebugTypeOK
<1>1. ASSUME NEW query \in Queries, AnswerEnvironment(query) PROVE ChainInv'
  <2>1. PICK answer \in {"error", "loaded", "loading"} :
            Emit(query, answer) /\ (answer = "loaded" => is_loaded)
    BY <1>1 DEF AnswerEnvironment
  <2>2. [name |-> query, answer |-> answer] \in Event
    BY DEF Event
  <2>3. Take(query) /\ UNCHANGED <<pageVars, browserVars, faults, disturbances>>
    BY <1>1 DEF AnswerEnvironment
  <2>4. query \notin Calls
    BY Names
  <2>5. answer = "loaded" => Fine'
    BY <2>1, <2>3 DEF Fine, browserVars, managerVars
  <2>6. UNCHANGED <<atWallet, is_loaded, environment_error, launch>>
    BY <2>3 DEF browserVars, managerVars
  <2> QED
    BY <1>0, <2>1, <2>2, <2>3, <2>4, <2>5, <2>6, HeadSent, Answered
<1>2. ASSUME NEW call \in Calls, request_http(call) PROVE ChainInv'
  <2>1. Take(call) /\ UNCHANGED <<pageVars, managerVars, faults, disturbances>>
    BY <1>2 DEF request_http
  <2>2. CASE atWallet' = atWallet \cup {call} /\ toPage' = toPage
    BY <2>1, <2>2, ToWallet
  <2>3. CASE Emit(call, "error") /\ atWallet' = atWallet
    <3>1. [name |-> call, answer |-> "error"] \in Event
      BY DEF Event, Answers
    <3>2. Fine'
      BY <2>1, HeadSent DEF Fine, managerVars
    <3>3. UNCHANGED <<is_loaded, environment_error, launch>>
      BY <2>1 DEF managerVars
    <3> QED
      BY <1>0, <2>1, <2>3, <3>1, <3>2, <3>3, HeadSent, Answered
  <2> QED
    BY <1>2, <2>2, <2>3 DEF request_http
<1>3. ASSUME NEW call \in Calls, PassOn(call) PROVE ChainInv'
  BY <1>3, ToWallet DEF PassOn
<1>4. CASE restartwallet
  <2>1. "restartwallet" \in Calls /\ "restartwallet" \in Restarting
    BY Names
  <2>2. [name |-> "restartwallet", answer |-> "ok"] \in Event
    BY <2>1 DEF Event, Answers
  <2>3. /\ Take("restartwallet") /\ Emit("restartwallet", "ok")
        /\ UNCHANGED <<pageVars, atWallet, faults, disturbances>>
        /\ is_loaded' = FALSE /\ launch' = "process" /\ environment_error' = environment_error
    BY <1>4 DEF restartwallet, ScheduleStart
  <2> QED
    BY <1>0, <2>1, <2>2, <2>3, HeadSent, Answered
<1>5. ASSUME NEW call \in atWallet, NEW answer \in Answers, on_http_response(call, answer)
      PROVE  ChainInv'
  <2>1. Somewhere /\ started /\ iteration <= Iterations
    BY <1>5 DEF ChainInv, Nowhere
  <2>2. PICK c \in Calls : Working(c) /\ Fine
    BY <1>5, <2>1 DEF Somewhere, Sent, Waiting, Told
  <2>3. call = c /\ atWallet' = {} /\ toBrowser = <<>> /\ delayed = {} /\ ChainEvents = {}
    BY <1>5, <2>2 DEF Working, on_http_response
  <2>4. [name |-> call, answer |-> answer] \in Event /\ answer # "unknown"
    BY <2>3 DEF Event, Answers
  <2>5. Emit(call, answer) /\ UNCHANGED <<pageVars, toBrowser, faults>>
    BY <1>5 DEF on_http_response
  <2>6. /\ is_loaded' \in BOOLEAN /\ environment_error' \in BOOLEAN
        /\ launch' \in {"none", "process", "address"}
        /\ disturbances' \in 0 .. MaxDisturbances
        /\ call \in Calls \ Restarting => Fine'
    <3>1. CASE call \in {"stop", "encryptwallet", "sethdseed"} /\ ScheduleStart
               /\ UNCHANGED disturbances
      BY <1>0, <3>1, Names DEF ScheduleStart
    <3>2. CASE ScheduleStart /\ Disturb
      <4>1. disturbances' \in 0 .. MaxDisturbances /\ disturbances' > 0
        BY <1>0, <3>2 DEF Disturb
      <4>2. is_loaded' = FALSE /\ launch' = "process" /\ environment_error' = environment_error
        BY <3>2 DEF ScheduleStart
      <4> QED
        BY <1>0, <4>1, <4>2 DEF Fine
    <3>3. CASE UNCHANGED <<managerVars, disturbances>>
      BY <1>0, <2>2, <3>3 DEF managerVars, Fine
    <3> QED
      BY <1>5, <3>1, <3>2, <3>3 DEF on_http_response
  <2>7. answer # "loaded"
    BY DEF Answers
  <2> QED
    BY <2>1, <2>3, <2>4, <2>5, <2>6, <2>7, Answered
<1> QED
  BY <1>1, <1>2, <1>3, <1>4, <1>5 DEF BrowserStep

LEMMA ChainInvNext == ChainInv /\ [DebugNext]_debugVars => ChainInv'
<1> SUFFICES ASSUME ChainInv, [DebugNext]_debugVars PROVE ChainInv'
  OBVIOUS
<1>0. DebugTypeOK /\ Iterations \in Nat /\ MaxFaults \in Nat /\ MaxDisturbances \in Nat
  BY DebugAssumption DEF ChainInv
<1>1. CASE UNCHANGED debugVars
  <2>1. /\ UNCHANGED <<started, iteration, status, delayed, threw, atWallet, is_loaded,
                       environment_error, launch, toBrowser, toPage, faults, disturbances>>
    BY <1>1 DEF debugVars, pageVars, browserVars, managerVars
  <2>2. DebugTypeOK' /\ (Fine => Fine') /\ ChainEvents' = ChainEvents
    BY <1>0, <2>1 DEF DebugTypeOK, Fine, ChainEvents
  <2> QED
    BY <2>1, <2>2, Stays
<1>2. CASE onclick
  <2>1. /\ ~started /\ started' = TRUE /\ toBrowser' = Append(toBrowser, "environment")
        /\ UNCHANGED <<iteration, status, delayed, threw, atWallet, is_loaded,
                       environment_error, launch, toPage, faults, disturbances>>
    BY <1>2 DEF onclick, Send, browserVars, managerVars
  <2>2. Nowhere
    BY <2>1 DEF ChainInv
  <2>3. toBrowser' = <<"environment">>
    BY <2>1, <2>2 DEF Nowhere
  <2>4. "environment" \in Queries /\ "environment" \notin Calls
    BY Names
  <2>5. Sent("environment")'
    BY <2>1, <2>2, <2>3 DEF Nowhere, Sent, ChainEvents
  <2>6. toBrowser' \in Seq(Calls \cup Queries)
    BY <2>3, <2>4
  <2>7. DebugTypeOK'
    BY <1>0, <2>1, <2>6 DEF DebugTypeOK
  <2> QED
    BY <2>1, <2>4, <2>5, <2>7 DEF ChainInv, Somewhere
<1>3. CASE PageStep
  <2>1. ASSUME NEW message \in delayed, Timeout(message) PROVE ChainInv'
    <3>1. /\ delayed' = delayed \ {message} /\ toBrowser' = Append(toBrowser, message)
          /\ UNCHANGED <<started, iteration, status, threw, atWallet, is_loaded,
                         environment_error, launch, toPage, faults, disturbances>>
      BY <2>1 DEF Timeout, Send, browserVars, managerVars
    <3>2. Somewhere /\ started /\ iteration <= Iterations
      BY <2>1 DEF ChainInv, Nowhere
    <3>3. PICK m \in Calls \cup Queries : Waiting(m) /\ (m \in Calls => Fine)
      BY <2>1, <3>2 DEF Somewhere, Sent, Working, Told
    <3>4. message = m /\ delayed' = {} /\ toBrowser' = <<m>>
      BY <2>1, <3>1, <3>3 DEF Waiting
    <3>5. Sent(m)' /\ (Fine => Fine')
      BY <3>1, <3>3, <3>4 DEF Waiting, Sent, ChainEvents, Fine
    <3>6. toBrowser' \in Seq(Calls \cup Queries)
      BY <3>4
    <3>7. DebugTypeOK'
      BY <1>0, <3>1, <3>4, <3>6 DEF DebugTypeOK
    <3> QED
      BY <3>1, <3>2, <3>3, <3>5, <3>7 DEF ChainInv, Somewhere
  <2> QED
    BY <1>3, <2>1, ListenersKeep DEF PageStep
<1>4. CASE BrowserStep
  BY <1>4, BrowserKeeps
<1>5. CASE LaunchEnds
  <2>1. /\ UNCHANGED <<started, iteration, status, delayed, threw, atWallet, toBrowser, toPage,
                       disturbances>>
        /\ is_loaded => is_loaded'
        /\ is_loaded' \in BOOLEAN /\ environment_error' \in BOOLEAN
        /\ launch' \in {"none", "process", "address"} /\ faults' \in 0 .. MaxFaults
    <3>1. faults' \in 0 .. MaxFaults
      BY <1>0, <1>5 DEF LaunchEnds, DebugTypeOK
    <3>2. is_loaded \in BOOLEAN /\ environment_error \in BOOLEAN
      BY <1>0 DEF DebugTypeOK
    <3>3. \/ is_loaded' = is_loaded /\ launch' = "address" /\ environment_error' = FALSE
          \/ is_loaded' = is_loaded /\ launch' = "none" /\ environment_error' = TRUE
          \/ is_loaded' = TRUE /\ launch' = "none" /\ environment_error' = environment_error
      BY <1>5 DEF LaunchEnds
    <3>4. UNCHANGED <<started, iteration, status, delayed, threw, atWallet, toBrowser, toPage,
                      disturbances>>
      BY <1>5 DEF LaunchEnds, pageVars
    <3> QED
      BY <3>1, <3>2, <3>3, <3>4
  <2>2. DebugTypeOK' /\ (Fine => Fine') /\ ChainEvents' = ChainEvents
    BY <1>0, <2>1 DEF DebugTypeOK, Fine, ChainEvents
  <2> QED
    BY <2>1, <2>2, Stays
<1>6. CASE OtherTab
  <2>1. /\ UNCHANGED <<started, iteration, status, delayed, threw, atWallet, toBrowser, faults>>
        /\ disturbances' = disturbances + 1 /\ disturbances < MaxDisturbances
    BY <1>6 DEF OtherTab, Disturb, pageVars
  <2>2. Fine'
    BY <1>0, <2>1 DEF Fine, DebugTypeOK
  <2>3. CASE ScheduleStart /\ toPage' = toPage
    <3>0. disturbances' \in 0 .. MaxDisturbances
      BY <1>0, <2>1 DEF DebugTypeOK
    <3>1. DebugTypeOK' /\ ChainEvents' = ChainEvents
      BY <1>0, <2>1, <2>3, <3>0 DEF DebugTypeOK, ScheduleStart, ChainEvents
    <3> QED
      BY <2>1, <2>2, <2>3, <3>1, Stays
  <2>4. CASE Emit("environment", "unknown") /\ UNCHANGED managerVars
    <3> DEFINE e == [name |-> "environment", answer |-> "unknown"]
    <3>1. e \in Event /\ e.answer = "unknown"
      BY Names DEF Event
    <3>2. toPage' = Append(toPage, e)
      BY <2>4 DEF Emit
    <3> HIDE DEF e
    <3>3. /\ toPage' \in Seq(Event) /\ ChainEvents' = ChainEvents
          /\ \A i \in DOMAIN toPage : i \in DOMAIN toPage' /\ toPage'[i] = toPage[i]
      BY <1>0, <3>1, <3>2, Emitted
    <3>0. disturbances' \in 0 .. MaxDisturbances
      BY <1>0, <2>1 DEF DebugTypeOK
    <3>4. DebugTypeOK'
      BY <1>0, <2>1, <2>4, <3>0, <3>3 DEF DebugTypeOK, managerVars
    <3> QED
      BY <2>1, <2>2, <3>3, <3>4, Stays
  <2> QED
    BY <1>6, <2>3, <2>4 DEF OtherTab
<1> QED
  BY <1>1, <1>2, <1>3, <1>4, <1>5, <1>6 DEF DebugNext

LEMMA ChainInvInit == DebugInit => ChainInv
<1> SUFFICES ASSUME DebugInit PROVE ChainInv
  OBVIOUS
<1>1. DebugTypeOK
  <2>1. /\ iteration \in 0 .. (Iterations + 1) /\ faults \in 0 .. MaxFaults
        /\ disturbances \in 0 .. MaxDisturbances
    BY DebugAssumption DEF DebugInit
  <2>2. toBrowser \in Seq(Calls \cup Queries) /\ toPage \in Seq(Event)
    BY DEF DebugInit
  <2> QED
    BY <2>1, <2>2 DEF DebugInit, DebugTypeOK
<1>2. Nowhere /\ ~started /\ iteration <= Iterations
  BY DebugAssumption DEF DebugInit, Nowhere, ChainEvents
<1> QED
  BY <1>1, <1>2 DEF ChainInv

\* Where the chain is says how long it is.
LEMMA Lengths ==
    /\ Nowhere => ChainLength = 0
    /\ Somewhere => ChainLength = 1
<1>1. Cardinality({}) = 0 /\ \A x : Cardinality({x}) = 1
  BY FS_EmptySet, FS_Singleton
<1>2. Len(<<>>) = 0 /\ \A x : Len(<<x>>) = 1
  OBVIOUS
<1>3. Nowhere => ChainLength = 0
  BY <1>1, <1>2 DEF Nowhere, ChainLength
<1>4. ASSUME NEW m, Sent(m) \/ Working(m) \/ Waiting(m) \/ Told(m) PROVE ChainLength = 1
  <2>1. CASE Sent(m)
    BY <1>1, <1>2, <2>1 DEF Sent, ChainLength
  <2>2. CASE Working(m)
    <3>1. Len(toBrowser) = 0 /\ Cardinality(delayed) = 0 /\ Cardinality(ChainEvents) = 0
      BY <1>1, <1>2, <2>2 DEF Working
    <3>2. Cardinality(atWallet) = 1
      BY <1>1, <2>2 DEF Working
    <3> QED
      BY <3>1, <3>2 DEF ChainLength
  <2>3. CASE Waiting(m)
    <3>1. Len(toBrowser) = 0 /\ Cardinality(atWallet) = 0 /\ Cardinality(ChainEvents) = 0
      BY <1>1, <1>2, <2>3 DEF Waiting
    <3>2. Cardinality(delayed) = 1
      BY <1>1, <2>3 DEF Waiting
    <3> QED
      BY <3>1, <3>2 DEF ChainLength
  <2>4. CASE Told(m)
    <3>1. PICK i \in DOMAIN toPage : ChainEvents = {i}
      BY <2>4 DEF Told
    <3>2. Cardinality(ChainEvents) = 1
      BY <1>1, <3>1
    <3> QED
      BY <1>1, <1>2, <2>4, <3>2 DEF Told, ChainLength
  <2> QED  BY <1>4, <2>1, <2>2, <2>3, <2>4
<1> QED
  BY <1>3, <1>4 DEF Somewhere

LEMMA ChainInvSound == ChainInv => ChainIsSound
<1> SUFFICES ASSUME ChainInv PROVE ChainIsSound
  OBVIOUS
<1>1. OneChain
  BY Lengths DEF ChainInv, OneChain
<1>2. EndIsTold
  BY Lengths DEF ChainInv, EndIsTold
<1>3. CallsFindTheWallet
  <2> SUFFICES ASSUME NEW i \in DOMAIN toBrowser, toBrowser[i] \in RpcCalls
               PROVE  is_loaded \/ disturbances > 0
    BY DEF CallsFindTheWallet
  <2>1. toBrowser # <<>>
    OBVIOUS
  <2>2. PICK m \in Calls \cup Queries : Sent(m) /\ (m \in Calls => Fine)
    BY <2>1 DEF ChainInv, Nowhere, Somewhere, Working, Waiting, Told
  <2>3. toBrowser = <<m>>
    BY <2>2 DEF Sent
  <2>4. toBrowser[i] = m
    BY <2>3
  <2> QED
    BY <2>2, <2>4 DEF Calls, Fine
<1> QED
  BY <1>1, <1>2, <1>3 DEF ChainIsSound

\* Every variable of the debug page keeps its type: no iteration is counted beyond the last (debug.js).
THEOREM DebugTypeCorrect == DebugSpec => []DebugTypeOK
<1>1. ChainInv => DebugTypeOK
  BY DEF ChainInv
<1> QED
  BY <1>1, ChainInvInit, ChainInvNext, PTL DEF DebugSpec

\* The debug page has one chain of calls, asks nothing of the wallet while a restart of its own goes on,
\* and says how the chain ended, unless check_error threw (environment, on_restarting_call, next).
THEOREM ChainStaysSound == DebugSpec => []ChainIsSound
<1> QED
  BY ChainInvSound, ChainInvInit, ChainInvNext, PTL DEF DebugSpec

-----------------------------------------------------------------------------
(* Both pages.  A behaviour is about one of them, and a step of the other is none of this one.   *)

LEMMA PartsRun == MCFairSpec => Spec /\ DebugSpec
<1>1. MCInit => Init /\ DebugInit
  BY DEF MCInit
<1>2. [MCNext]_<<tab, vars, debugVars>> => [Next]_vars
  BY DEF MCNext
<1>3. [MCNext]_<<tab, vars, debugVars>> => [DebugNext]_debugVars
  BY DEF MCNext
<1> QED
  BY <1>1, <1>2, <1>3, PTL DEF MCFairSpec, Spec, DebugSpec

\* Every variable of the news page and of the debug page keeps its type (news.js, debug.js).
THEOREM TabsTypesCorrect == MCFairSpec => []TypesOK
<1>1. TypeOK /\ DebugTypeOK => TypesOK
  BY DEF TypesOK
<1> QED
  BY <1>1, PartsRun, NewsTypeCorrect, DebugTypeCorrect, PTL

=============================================================================
