----------------------------- MODULE MCWorkspace -----------------------------
(* Two pages beside the default one, and twelve scenarios: each leaves out the  *)
(* parts of the shell it is not about.                                         *)
EXTENDS Workspace

CONSTANTS overview, tasks, logs

MCMenu == {overview, tasks, logs}
MCTyped == {0, 1, 999}

Scenario(pages, fields, parts) == [pages |-> pages, fields |-> fields, parts |-> parts]

MCScenarios ==
  {Scenario({tasks, logs}, {}, {"tabs"}),
   Scenario({tasks}, {"tabbarPersist"}, {"tabs", "session"}),
   Scenario({tasks}, {"tabbarMaxCount", "tabbarDraggable"}, {"tabs"}),
   Scenario({tasks}, {"tabbarPersist", "tabbarEnable", "shortcutKeysEnable",
                      "shortcutKeysGlobalLogout", "shortcutKeysGlobalEscape"},
            {"lock", "session"}),
   Scenario({}, {"layout", "appPreferencesButtonPosition", "headerVisible", "sidebarEnable",
                 "tabbarEnable", "tabbarShowMaximize"}, {"layout"}),
   Scenario({}, {"layout", "sidebarEnable", "sidebarCollapsed", "sidebarExpandOnHover"}, {"layout"}),
   Scenario({}, {"sidebarEnable", "sidebarWidth", "sidebarDraggable"}, {}),
   Scenario({}, {"layout", "colorMode", "themeSemiDarkSidebar", "themeSemiDarkSidebarSub",
                 "themeSemiDarkHeader", "themeFontSize"}, {}),
   Scenario({}, {"breadcrumbEnable", "breadcrumbShowIcon", "breadcrumbShowHome", "footerEnable",
                 "footerFixed", "copyrightEnable", "appWatermark", "appWatermarkContent",
                 "transitionEnable", "transitionName", "navigationSplit"}, {}),
   Scenario({}, {"appLocale", "appTimezone", "widgetLanguageToggle", "widgetTimezone",
                 "appPreferencesButtonPosition", "headerVisible", "contentCompact"}, {}),
   Scenario({}, {"themeBuiltinType", "themeColorPrimary", "themeRadius", "sidebarEnable",
                 "sidebarCollapsedButton", "sidebarFixedButton", "widgetGlobalSearch"},
            {"session"}),
   Scenario({tasks}, {"layout", "navigationSplit"}, {"layout"})}
==============================================================================
