------------------------------ MODULE InteropData ------------------------------
(* What interop-data.js says of each Interop year: the focus areas and which of *)
(* them count towards a browser's score, the sections of the score table, the   *)
(* investigations with their scores over time, and the areas of the mobile      *)
(* view.  Areas are named without "interop-" and the year; an area taken over    *)
(* from an earlier year keeps that year.                                         *)
EXTENDS Integers, Sequences

-------------------------------------------------------------------------------
Counted2021 ==
    {"aspect-ratio", "flexbox", "grid", "position-sticky", "transforms"}

table_sections2021 ==
    <<[group |-> FALSE, previous |-> FALSE, rows |->
        <<"aspect-ratio", "flexbox", "grid", "transforms", "position-sticky">>]>>

-------------------------------------------------------------------------------
Counted2022 ==
    {"2021-aspect-ratio", "2021-flexbox", "2021-grid", "2021-position-sticky",
     "2021-transforms", "cascade", "color", "contain", "dialog", "forms",
     "scrolling", "subgrid", "text", "viewport", "webcompat"}

table_sections2022 ==
    <<[group |-> FALSE, previous |-> FALSE, rows |->
        <<"2021-aspect-ratio", "cascade", "color", "contain", "dialog",
          "2021-flexbox", "forms", "2021-grid", "scrolling",
          "2021-position-sticky", "subgrid", "text", "2021-transforms",
          "viewport", "webcompat">>],
      [group |-> TRUE, previous |-> FALSE, rows |->
        <<"Editing, contenteditable, and execCommand",
          "Pointer and Mouse Events", "Viewport Measurement">>]>>

investigation_scores2022 ==
    <<[name |-> "Editing, contenteditable, and execCommand",
       scores |-> <<<<20221022, 360>>, <<20221125, 460>>, <<20221215, 520>>>>],
      [name |-> "Pointer and Mouse Events",
       scores |-> <<<<20221201, 790>>, <<20221214, 1000>>>>],
      [name |-> "Viewport Measurement",
       scores |-> <<<<20220928, 600>>, <<20221214, 900>>>>]>>

-------------------------------------------------------------------------------
Counted2023 ==
    {"cssborderimage", "color", "container", "contain", "pseudos", "property",
     "flexbox", "fonts", "forms", "grid", "has", "inert", "cssmasking",
     "mathfunctions", "mediaqueries", "modules", "motion", "offscreencanvas",
     "events", "2022-scrolling", "2022-subgrid", "2021-transforms", "url",
     "webcompat", "webcodecs", "webcomponents"}

Uncounted2023 ==
    {"2021-aspect-ratio", "2021-position-sticky", "2022-cascade",
     "2022-dialog", "2022-text", "2022-viewport", "2022-webcompat"}

table_sections2023 ==
    <<[group |-> FALSE, previous |-> FALSE, rows |->
        <<"cssborderimage", "color", "container", "contain", "mathfunctions",
          "pseudos", "property", "flexbox", "fonts", "forms", "grid", "has",
          "inert", "cssmasking", "mediaqueries", "modules", "motion",
          "offscreencanvas", "events", "2022-scrolling", "2022-subgrid",
          "2021-transforms", "url", "webcodecs", "webcompat", "webcomponents">>],
      [group |-> TRUE, previous |-> FALSE, rows |->
        <<"Accessibility Testing", "Mobile Testing">>],
      [group |-> FALSE, previous |-> FALSE, rows |->
        <<"2021-aspect-ratio", "2022-cascade", "2022-dialog",
          "2021-position-sticky", "2022-text", "2022-viewport",
          "2022-webcompat">>],
      [group |-> TRUE, previous |-> TRUE, rows |->
        <<"Editing, contenteditable, and execCommand",
          "Pointer and Mouse Events", "Viewport Measurement">>]>>

investigation_scores2023 ==
    <<[name |-> "Accessibility Testing",
       scores |-> <<<<20230308, 600>>, <<20230513, 700>>, <<20230627, 780>>,
                    <<20230905, 860>>, <<20230927, 870>>, <<20231012, 910>>,
                    <<20231013, 920>>, <<20231103, 950>>, <<20231114, 980>>,
                    <<20231119, 1000>>>>],
      [name |-> "Mobile Testing",
       scores |-> <<<<20230620, 400>>, <<20230926, 600>>, <<20231024, 700>>>>]>>

-------------------------------------------------------------------------------
Counted2024 ==
    {"accessibility", "starting-style-transition-behavior", "dsd", "dir",
     "font-size-adjust", "websockets", "indexeddb", "layout", "nesting",
     "popover", "relative-color", "video-rvfc", "scrollbar", "text-wrap",
     "2023-property", "2023-events", "2023-url"}

Uncounted2024 ==
    {"2021-aspect-ratio", "2021-position-sticky", "2022-cascade",
     "2022-dialog", "2022-text", "2022-viewport", "2022-webcompat",
     "2023-cssborderimage", "2023-color", "2023-container", "2023-contain",
     "2023-pseudos", "2023-fonts", "2023-forms", "2023-has", "2023-inert",
     "2023-cssmasking", "2023-mathfunctions", "2023-mediaqueries",
     "2023-modules", "2023-motion", "2023-offscreencanvas", "2022-scrolling",
     "2021-transforms", "2023-webcompat", "2023-webcodecs",
     "2023-webcomponents"}

table_sections2024 ==
    <<[group |-> FALSE, previous |-> FALSE, rows |->
        <<"accessibility", "nesting", "2023-property", "dsd",
          "font-size-adjust", "websockets", "indexeddb", "layout",
          "2023-events", "popover", "relative-color", "video-rvfc",
          "scrollbar", "starting-style-transition-behavior", "dir",
          "text-wrap", "2023-url">>],
      [group |-> TRUE, previous |-> FALSE, rows |->
        <<"Accessibility Testing", "Mobile Testing", "WebAssembly Testing">>],
      [group |-> FALSE, previous |-> FALSE, rows |->
        <<"2021-aspect-ratio", "2023-cssborderimage", "2022-cascade",
          "2023-color", "2023-container", "2023-contain",
          "2023-mathfunctions", "2023-pseudos", "2022-dialog", "2023-fonts",
          "2023-forms", "2023-has", "2023-inert", "2023-cssmasking",
          "2023-mediaqueries", "2023-modules", "2023-motion",
          "2023-offscreencanvas", "2022-scrolling", "2021-position-sticky",
          "2021-transforms", "2022-text", "2022-viewport", "2023-webcodecs",
          "2022-webcompat", "2023-webcompat", "2023-webcomponents">>]>>

investigation_scores2024 ==
    <<[name |-> "Accessibility Testing",
       scores |-> <<<<20240402, 18>>, <<20240425, 33>>, <<20240628, 120>>,
                    <<20240813, 242>>, <<20241001, 458>>, <<20241111, 558>>>>],
      [name |-> "Mobile Testing",
       scores |-> <<<<20240423, 130>>, <<20241022, 625>>>>],
      [name |-> "WebAssembly Testing",
       scores |-> <<<<20241119, 333>>, <<20241220, 666>>>>]>>

mobile_focus_areas2024 ==
    <<"accessibility", "nesting", "2023-property", "dsd", "font-size-adjust",
      "websockets", "indexeddb", "layout", "2023-events", "popover",
      "relative-color", "video-rvfc", "scrollbar",
      "starting-style-transition-behavior", "dir", "text-wrap", "2023-url">>

mobile_table_sections2024 ==
    <<[group |-> FALSE, previous |-> FALSE, rows |->
        <<"accessibility", "nesting", "2023-property", "dsd",
          "font-size-adjust", "websockets", "indexeddb", "layout",
          "2023-events", "popover", "relative-color", "video-rvfc",
          "scrollbar", "starting-style-transition-behavior", "dir",
          "text-wrap", "2023-url">>],
      [group |-> TRUE, previous |-> FALSE, rows |->
        <<"Accessibility Testing", "Mobile Testing", "WebAssembly Testing">>]>>

-------------------------------------------------------------------------------
Counted2025 ==
    {"anchor-positioning", "core-web-vitals", "scope", "writingmodes",
     "2024-layout", "modules", "navigation", "backdrop-filter",
     "remove-mutation-events", "2023-events", "scrollend", "storageaccess",
     "details", "textdecoration", "view-transitions", "webassembly",
     "urlpattern", "webcompat", "webrtc"}

table_sections2025 ==
    <<[group |-> FALSE, previous |-> FALSE, rows |->
        <<"anchor-positioning", "core-web-vitals", "modules", "navigation",
          "backdrop-filter", "remove-mutation-events", "2023-events",
          "2024-layout", "scrollend", "storageaccess", "details",
          "textdecoration", "scope", "view-transitions", "webassembly",
          "writingmodes", "urlpattern", "webcompat", "webrtc">>],
      [group |-> TRUE, previous |-> FALSE, rows |->
        <<"Accessibility testing", "Gamepad API testing", "Mobile testing",
          "Privacy testing", "WebVTT">>]>>

investigation_scores2025 ==
    <<[name |-> "Accessibility testing",
       scores |-> <<<<20250805, 300>>, <<20251007, 450>>, <<20251105, 510>>,
                    <<20251231, 610>>>>],
      [name |-> "Gamepad API testing",
       scores |-> <<<<20250601, 125>>, <<20250814, 375>>, <<20250908, 415>>,
                    <<20250922, 540>>>>],
      [name |-> "Mobile testing",
       scores |-> <<<<20250610, 120>>, <<20250826, 300>>, <<20251231, 460>>>>],
      [name |-> "Privacy testing",
       scores |-> <<>>],
      [name |-> "WebVTT",
       scores |-> <<<<20250623, 100>>, <<20251105, 211>>>>]>>

mobile_focus_areas2025 ==
    <<"anchor-positioning", "core-web-vitals", "modules", "navigation",
      "backdrop-filter", "remove-mutation-events", "2023-events",
      "2024-layout", "scrollend", "storageaccess", "details",
      "textdecoration", "scope", "view-transitions", "webassembly",
      "writingmodes", "urlpattern", "webcompat", "webrtc">>

mobile_table_sections2025 ==
    <<[group |-> FALSE, previous |-> FALSE, rows |->
        <<"anchor-positioning", "core-web-vitals", "modules", "navigation",
          "backdrop-filter", "remove-mutation-events", "2023-events",
          "2024-layout", "scrollend", "storageaccess", "details",
          "textdecoration", "scope", "view-transitions", "webassembly",
          "writingmodes", "urlpattern", "webcompat", "webrtc">>],
      [group |-> TRUE, previous |-> FALSE, rows |->
        <<"Accessibility testing", "Gamepad API testing", "Mobile testing",
          "Privacy testing", "WebVTT">>]>>

-------------------------------------------------------------------------------
Counted2026 ==
    {"anchor-positioning", "attr", "contrast-color",
     "container-style-queries", "custom-highlights", "dialogs-and-popovers",
     "fetch", "indexeddb", "jspi-for-wasm", "media-pseudo-classes",
     "navigation", "scoped-custom-element-registries",
     "scroll-driven-animations", "scroll-snap", "shape", "view-transitions",
     "webcompat", "webrtc", "webtransport", "zoom"}

table_sections2026 ==
    <<[group |-> FALSE, previous |-> FALSE, rows |->
        <<"anchor-positioning", "attr", "contrast-color",
          "container-style-queries", "custom-highlights",
          "dialogs-and-popovers", "fetch", "indexeddb", "jspi-for-wasm",
          "media-pseudo-classes", "navigation",
          "scoped-custom-element-registries", "scroll-driven-animations",
          "scroll-snap", "shape", "view-transitions", "webcompat", "webrtc",
          "webtransport", "zoom">>],
      [group |-> TRUE, previous |-> FALSE, rows |->
        <<"Accessibility testing", "JPEG XL", "Mobile testing", "WebVTT">>]>>

investigation_scores2026 ==
    <<[name |-> "Accessibility testing",
       scores |-> <<<<20260407, 300>>, <<20260505, 480>>, <<20260706, 502>>,
                    <<20260810, 575>>>>],
      [name |-> "JPEG XL",
       scores |-> <<<<20260601, 783>>>>],
      [name |-> "Mobile testing",
       scores |-> <<>>],
      [name |-> "WebVTT",
       scores |-> <<>>]>>

mobile_focus_areas2026 ==
    <<"anchor-positioning", "attr", "contrast-color",
      "container-style-queries", "custom-highlights", "dialogs-and-popovers",
      "fetch", "indexeddb", "jspi-for-wasm", "media-pseudo-classes",
      "navigation", "scoped-custom-element-registries",
      "scroll-driven-animations", "scroll-snap", "shape", "view-transitions",
      "webcompat", "webrtc", "webtransport", "zoom">>

mobile_table_sections2026 ==
    <<[group |-> FALSE, previous |-> FALSE, rows |->
        <<"anchor-positioning", "attr", "contrast-color",
          "container-style-queries", "custom-highlights",
          "dialogs-and-popovers", "fetch", "indexeddb", "jspi-for-wasm",
          "media-pseudo-classes", "navigation",
          "scoped-custom-element-registries", "scroll-driven-animations",
          "scroll-snap", "shape", "view-transitions", "webcompat", "webrtc",
          "webtransport", "zoom">>],
      [group |-> TRUE, previous |-> FALSE, rows |->
        <<"Accessibility testing", "JPEG XL", "Mobile testing", "WebVTT">>]>>

-------------------------------------------------------------------------------
(* A year without mobile browsers has no mobile view.                            *)

Year(browsers, counted, uncounted, sections, investigations, weight) ==
    [browsers |-> browsers, counted |-> counted, areas |-> counted \union uncounted,
     sections |-> sections, investigations |-> investigations, weight |-> weight,
     mobile_browsers |-> 0, mobile_areas |-> {}, mobile_sections |-> <<>>]

WithMobile(year, browsers, areas, sections) ==
    [year EXCEPT !.mobile_browsers = browsers, !.mobile_sections = sections,
                 !.mobile_areas = {areas[i] : i \in DOMAIN areas}]

\* Weights in percent.
interopData == <<
    Year(3, Counted2021, {}, table_sections2021, <<>>, 0),
    Year(3, Counted2022, {}, table_sections2022, investigation_scores2022, 10),
    Year(3, Counted2023, Uncounted2023, table_sections2023, investigation_scores2023, 0),
    WithMobile(Year(4, Counted2024, Uncounted2024, table_sections2024, investigation_scores2024, 0),
               2, mobile_focus_areas2024, mobile_table_sections2024),
    WithMobile(Year(4, Counted2025, {}, table_sections2025, investigation_scores2025, 0),
               2, mobile_focus_areas2025, mobile_table_sections2025),
    WithMobile(Year(4, Counted2026, {}, table_sections2026, investigation_scores2026, 0),
               2, mobile_focus_areas2026, mobile_table_sections2026)>>

\* Years are counted from 2021.
InfoOf(year) == interopData[year - 2020]

===============================================================================
